---- MODULE Spec2Model ----
(***************************************************************************)
(* State-machine model of mysqlm: the instance registry (registry.py), the *)
(* instance lifecycle (instance_manager.py), the command runner            *)
(* (system.py) and the operations that save records (upgrade.py, cli.py).  *)
(* One action is one whole handler; results of external commands and of    *)
(* the operating system are inputs drawn with \E.                          *)
(***************************************************************************)
EXTENDS Integers, Sequences, FiniteSets, TLC

\* ------------------------------------------------------------- bounds
MaxPortOffset == 1
MaxClock == 4
MaxLogLines == 2
MaxFaults == 1
MaxSecretLen == 2
MaxOutLen == 2
MaxTimeout == 3

DefaultPort == 3306

Names == {"db1", "db2"}
AllNames == Names \cup {"db3"}
Ports == DefaultPort..(DefaultPort + MaxPortOffset)
NoPort == 0
PortArgs == Ports \cup {NoPort}
NoVersion == "none"
VersionArgs == {"8.0"}
UpgradeTargets == {"8.0.36"}

\* ------------------------------------------------------------- paths
DirKeys == {"datadir", "conf_dir", "log_dir", "runtime_dir", "backup_dir"}

(* variant: the log directory is planned where the runtime directory is *)
_generate_paths_Shared(name) ==
    [datadir     |-> <<"/var/lib/mysql-instances", name>>,
     conf_dir    |-> <<"/etc/mysql-instances", name>>,
     config_path |-> <<"/etc/mysql-instances", name, "my.cnf">>,
     log_dir     |-> <<"/var/run/mysql-", name>>,
     runtime_dir |-> <<"/var/run/mysql-", name>>,
     socket      |-> <<"/var/run/mysql-", name, "mysqld.sock">>,
     error_log   |-> <<"/var/run/mysql-", name, "mysqld.log">>,
     slow_log    |-> <<"/var/run/mysql-", name, "mysql-slow.log">>,
     pid_file    |-> <<"/var/run/mysql-", name, "mysqld.pid">>,
     backup_dir  |-> <<"/var/backups/mysql", name>>]

\* A path is <<root, instance name>> for a directory and
\* <<root, instance name, leaf>> for a file in it.
_generate_paths(name) ==
    [datadir     |-> <<"/var/lib/mysql-instances", name>>,
     conf_dir    |-> <<"/etc/mysql-instances", name>>,
     config_path |-> <<"/etc/mysql-instances", name, "my.cnf">>,
     log_dir     |-> <<"/var/log/mysql-", name>>,
     runtime_dir |-> <<"/var/run/mysql-", name>>,
     socket      |-> <<"/var/run/mysql-", name, "mysqld.sock">>,
     error_log   |-> <<"/var/log/mysql-", name, "mysqld.log">>,
     slow_log    |-> <<"/var/log/mysql-", name, "mysql-slow.log">>,
     pid_file    |-> <<"/var/run/mysql-", name, "mysqld.pid">>,
     backup_dir  |-> <<"/var/backups/mysql", name>>]

Parent(path) == <<path[1], path[2]>>

\* ------------------------------------------------------------- records
NullRec ==
    [name |-> "", port |-> NoPort, socket |-> <<>>, datadir |-> <<>>,
     config_path |-> <<>>, log_dir |-> <<>>, error_log |-> <<>>,
     slow_log |-> <<>>, pid_file |-> <<>>, runtime_dir |-> <<>>,
     backup_dir |-> <<>>, mysql_version |-> NoVersion, created_at |-> 0,
     last_modified |-> 0, systemd_unit |-> <<>>, root_password_path |-> <<>>,
     root_password_set |-> FALSE]

Fields == DOMAIN NullRec

to_dict(instance) == [k \in Fields |-> instance[k]]

\* YAML scalars. The resolver reads a plain scalar by its form: "null" is
\* None, a <digits>.<digits> text is a float, anything else stays a string.
\* A float is written here as the text prefixed with "float:".
FloatTexts == {"8.0", "5.7"}
Resolve(text) ==
    IF text = "null" THEN NoVersion
    ELSE IF text \in FloatTexts THEN "float:" \o text
    ELSE text

\* yaml.safe_dump of an Optional[str]: None is the plain scalar null; a
\* string is written plain unless its plain form would resolve to something
\* else, and then it is quoted.
(* variant: every string is written plain *)
DumpScalar_Plain(v) ==
    [style |-> "plain", text |-> IF v = NoVersion THEN "null" ELSE v]

DumpScalar(v) ==
    IF v = NoVersion THEN [style |-> "plain", text |-> "null"]
    ELSE IF Resolve(v) # v THEN [style |-> "quoted", text |-> v]
    ELSE [style |-> "plain", text |-> v]

LoadScalar(s) == IF s.style = "quoted" THEN s.text ELSE Resolve(s.text)

\* The one field whose YAML form depends on the value is mysql_version;
\* integers, booleans and the other strings of a record are written and
\* read back as they are.
safe_dump(data) ==
    [k \in DOMAIN data |->
        IF k = "mysql_version" THEN DumpScalar(data[k]) ELSE data[k]]

safe_load(text) ==
    [k \in DOMAIN text |->
        IF k = "mysql_version" THEN LoadScalar(text[k]) ELSE text[k]]

\* A registry file: absent, a complete YAML document, or the torn (empty or
\* cut short) file a write leaves when the process dies inside write_text.
AbsentFile == [kind |-> "absent", data |-> safe_dump(to_dict(NullRec))]
TornFile   == [kind |-> "torn", data |-> safe_dump(to_dict(NullRec))]
YamlFile(d) == [kind |-> "yaml", data |-> d]

\* data["key"] raises KeyError for these when the mapping lacks them.
MandatoryKeys ==
    {"name", "port", "socket", "datadir", "config_path", "log_dir",
     "error_log", "slow_log", "pid_file", "runtime_dir", "systemd_unit"}

DEFAULT_BACKUP_ROOT == <<"/var/backups/mysql">>

get(data, key, default) == IF key \in DOMAIN data THEN data[key] ELSE default

\* from_dict(data, now): now is what datetime.utcnow() returns, used for a
\* missing created_at or last_modified.
from_dict_at(data, now) ==
    [name |-> data["name"], port |-> data["port"], socket |-> data["socket"],
     datadir |-> data["datadir"], config_path |-> data["config_path"],
     log_dir |-> data["log_dir"], error_log |-> data["error_log"],
     slow_log |-> data["slow_log"], pid_file |-> data["pid_file"],
     runtime_dir |-> data["runtime_dir"],
     backup_dir |-> get(data, "backup_dir", DEFAULT_BACKUP_ROOT),
     mysql_version |-> get(data, "mysql_version", NoVersion),
     created_at |-> get(data, "created_at", now),
     last_modified |-> get(data, "last_modified", now),
     systemd_unit |-> data["systemd_unit"],
     root_password_path |-> get(data, "root_password_path", <<>>),
     root_password_set |-> get(data, "root_password_set", FALSE)]

\* ------------------------------------------------------------- state
VARIABLES
    regFile,    \* name -> the record file <registry dir>/<name>.yaml
    dirs,       \* name -> the instance directories that exist (subset of DirKeys)
    dataInit,   \* name -> the data directory is non-empty
    cnf,        \* name -> the my.cnf file
    errlog,     \* name -> the error log file
    pwfile,     \* name -> root-password.txt exists
    unit,       \* name -> the systemd unit file exists
    svc,        \* name -> the systemd service is running
    srv,        \* name -> an unmanaged mysqld (started by bootstrap) is running
    clock,      \* the wall clock read by datetime.utcnow()
    faults,     \* how many steps have failed or been cut short so far
    altered,    \* name -> the ALTER USER of the current provisioning succeeded
    partial,    \* name -> a create failed after it created the directories
    last,       \* what the last operation was and how it ended
    shown,      \* texts the last run_command logged or raised
    host,       \* the privilege of the process, the state of the system-wide
                \* and per-user locations, and the locations resolved
    my_cnf,     \* the text of one my.cnf, as parameters.py reads and writes it
    proc,       \* invocation -> where one create_instance stands, statement by
                \* statement, and its local variables
    disk,       \* the files, directories and server the invocations share
    wait        \* one call of wait_for_socket: its loop, the time and the socket

vars == <<regFile, dirs, dataInit, cnf, errlog, pwfile, unit, svc, srv, clock,
          faults, altered, partial, last, shown, host, my_cnf, proc, disk,
          wait>>

others == <<regFile, dirs, dataInit, cnf, errlog, pwfile, unit, svc, srv,
            clock, faults, altered, partial, shown, host, my_cnf, proc,
            disk, wait>>

NoValue == <<>>
NoCnf == [exists |-> FALSE, port |-> NoPort, client_port |-> NoPort,
          max_connections |-> NoValue]
NoLog == [exists |-> FALSE, lines |-> <<>>]
NoText == [exists |-> FALSE, lines |-> <<>>]

NoCall ==
    [op |-> "none", name |-> "", result |-> "", portArg |-> NoPort,
     keep |-> FALSE, extract |-> "unreached", started |-> FALSE,
     alterIssued |-> FALSE, alterOk |-> FALSE, shutdownIssued |-> FALSE,
     warned |-> FALSE, had |-> FALSE, arg |-> <<>>, value |-> <<>>,
     errors |-> <<>>, wroteUnit |-> FALSE, startIssued |-> FALSE,
     explicit |-> FALSE, readSecret |-> FALSE, madeDir |-> FALSE,
     ran |-> FALSE, paths |-> _generate_paths(""), systemctl |-> <<>>,
     stopped |-> FALSE]

NoShown == [logged |-> {}, raised |-> <<>>, secrets |-> {}]

\* The invocations of create_instance that run side by side, all for the
\* same instance name.
Procs == {1, 2}

\* An invocation that has not started.
IdleProc ==
    [pc |-> "idle", port |-> NoPort, temp |-> FALSE, flag |-> FALSE,
     exc |-> "none", did |-> <<>>, warned |-> FALSE, cred |-> "none",
     pwAtStart |-> "unreached"]

NoProc == [p \in Procs |-> IdleProc]

\* What the invocations share: the instance directories, my.cnf (the port in
\* it), the data directory (non-empty or not), the marker line in the error
\* log, root-password.txt (whose password it holds and its mode), the
\* unmanaged server (up, i.e. its socket exists, and the port it listens
\* on), the root password of the server (0: the temporary one, p: the one
\* invocation p generated), the record file (whether it exists and its
\* characters) and the invocations whose save has returned, in order.
NoDisk ==
    [dirs |-> FALSE, cnf |-> NoPort, data |-> FALSE, marker |-> FALSE,
     pw |-> [by |-> 0, mode |-> "none"], server |-> FALSE, listen |-> NoPort,
     rootpw |-> 0, file |-> [exists |-> FALSE, text |-> <<>>],
     order |-> <<>>]

\* No call of wait_for_socket in progress.
NoWait ==
    [pc |-> "idle", expect_exists |-> TRUE, timeout |-> 0, now |-> 0,
     deadline |-> 0, socket |-> FALSE, exists |-> FALSE, polls |-> 0]

\* A host with no instance yet, for the instance names in S.
InitOver(S) ==
    /\ regFile = [n \in S |-> AbsentFile]
    /\ dirs = [n \in S |-> {}]
    /\ dataInit = [n \in S |-> FALSE]
    /\ cnf = [n \in S |-> NoCnf]
    /\ errlog = [n \in S |-> NoLog]
    /\ pwfile = [n \in S |-> FALSE]
    /\ unit = [n \in S |-> FALSE]
    /\ svc = [n \in S |-> FALSE]
    /\ srv = [n \in S |-> FALSE]
    /\ clock = 0
    /\ faults = 0
    /\ altered = [n \in S |-> FALSE]
    /\ partial = [n \in S |-> FALSE]
    /\ last = NoCall
    /\ shown = NoShown
    /\ my_cnf = NoText
    /\ proc = NoProc
    /\ disk = NoDisk
    /\ wait = NoWait

\* A host on which the tool runs as root, with the system-wide locations in
\* place and resolved.
RootHost ==
    [root |-> TRUE, etc |-> "writable", etcMysqlm |-> "writable",
     instances |-> "writable", usrLocalEtc |-> "writable",
     usrLocalEtcMysqlm |-> "absent", etcConfig |-> TRUE,
     usrLocalConfig |-> FALSE, userConfigDir |-> FALSE,
     userConfig |-> FALSE, userRegistryDir |-> FALSE,
     registryDir |-> "system", configPath |-> "etc"]

Init == InitOver(Names) /\ host = RootHost

\* The instance names the host knows.
Universe == DOMAIN regFile

\* ------------------------------------------------------------- registry
\* (variant: the existence test looks at a path that never exists)
exists_Never(name) == FALSE

exists(name) == regFile[name].kind # "absent"

(* variant: the stored backup_dir is not read, the default is taken *)
from_dict_DefaultBackupDir(data) ==
    [from_dict_at(data, clock) EXCEPT !.backup_dir = DEFAULT_BACKUP_ROOT]

from_dict(data) == from_dict_at(data, clock)

\* load: "NotFound" when no file, "KeyError" when the file does not hold
\* the mandatory keys (a torn file parses to {} or to a prefix).
(* variant: the existence test is missing, the absent file reads as empty *)
LoadResult_Unchecked(file) ==
    IF file.kind \in {"absent", "torn"} \/ ~(MandatoryKeys \subseteq DOMAIN file.data)
        THEN [status |-> "KeyError", rec |-> NullRec]
    ELSE [status |-> "ok", rec |-> from_dict(safe_load(file.data))]

LoadResult(file) ==
    IF file.kind = "absent" THEN [status |-> "NotFound", rec |-> NullRec]
    ELSE IF file.kind = "torn" \/ ~(MandatoryKeys \subseteq DOMAIN file.data)
        THEN [status |-> "KeyError", rec |-> NullRec]
    ELSE [status |-> "ok", rec |-> from_dict(safe_load(file.data))]

load(name) == LoadResult(regFile[name])

\* save: sets last_modified, then path.write_text(...). If the process
\* dies inside write_text the file is left torn.
(* variant: the save writes the record with the last_modified it has *)
SavedFile_KeepStamp(instance, t, crash) ==
    IF crash THEN TornFile ELSE YamlFile(safe_dump(to_dict(instance)))

SavedFile(instance, t, crash) ==
    IF crash THEN TornFile
    ELSE YamlFile(safe_dump(to_dict([instance EXCEPT !.last_modified = t])))

\* delete: unlink when the file exists, nothing otherwise.
\* (variant: unlink without the existence test)
delete_Unchecked(name) ==
    IF exists(name) THEN [status |-> "ok", file |-> AbsentFile]
    ELSE [status |-> "FileNotFoundError", file |-> regFile[name]]

delete(name) ==
    IF exists(name) THEN [status |-> "ok", file |-> AbsentFile]
    ELSE [status |-> "ok", file |-> regFile[name]]

\* The characters of the instance names, and the code points that order
\* Python strings.
Chars(name) ==
    CASE name = "db"   -> <<"d", "b">>
      [] name = "db-1" -> <<"d", "b", "-", "1">>
      [] name = "db1"  -> <<"d", "b", "1">>
      [] name = "db2"  -> <<"d", "b", "2">>
      [] name = "db3"  -> <<"d", "b", "3">>
      [] name = "a/b"  -> <<"a", "/", "b">>

Ord(c) ==
    CASE c = "-" -> 45 [] c = "." -> 46 [] c = "/" -> 47 [] c = "1" -> 49 [] c = "2" -> 50
      [] c = "3" -> 51 [] c = "a" -> 97 [] c = "b" -> 98 [] c = "d" -> 100
      [] c = "l" -> 108 [] c = "m" -> 109 [] c = "y" -> 121

RECURSIVE StrLess(_, _)
StrLess(a, b) ==
    IF a = <<>> THEN b # <<>>
    ELSE IF b = <<>> THEN FALSE
    ELSE IF Head(a) = Head(b) THEN StrLess(Tail(a), Tail(b))
    ELSE Ord(Head(a)) < Ord(Head(b))

\* _path(name) is <directory>/<name>.yaml. With a separator in the name its
\* parent is a directory below the registry directory, which nothing
\* creates, and write_text raises FileNotFoundError.
ParentExists(name) == \A i \in DOMAIN Chars(name) : Chars(name)[i] # "/"

\* _path(name).name: "<name>.yaml"
FileName(name) == Chars(name) \o <<".", "y", "a", "m", "l">>

\* self.directory.glob("*.yaml"): the files of the registry, by instance name
glob == {n \in Universe : exists(n)}

\* sorted(paths): ascending by path, i.e. by file name
RECURSIVE sorted(_)
sorted(S) ==
    IF S = {} THEN <<>>
    ELSE LET m == CHOOSE x \in S :
                    \A y \in S \ {x} : StrLess(FileName(x), FileName(y))
         IN <<m>> \o sorted(S \ {m})

\* (variant: the try statement encloses the loop, the first file that fails
\* to parse ends the listing)
RECURSIVE yield_StopAtError(_)
yield_StopAtError(paths) ==
    IF paths = <<>> THEN [items |-> <<>>, errors |-> <<>>]
    ELSE LET got == LoadResult(regFile[Head(paths)])
             rest == yield_StopAtError(Tail(paths))
         IN IF got.status = "ok"
            THEN [items |-> <<got.rec>> \o rest.items, errors |-> rest.errors]
            ELSE [items |-> <<>>, errors |-> <<Head(paths)>>]

\* The loop of list_instances: a file that parses yields its record, one
\* that raises is logged and skipped.
RECURSIVE yield(_)
yield(paths) ==
    IF paths = <<>> THEN [items |-> <<>>, errors |-> <<>>]
    ELSE LET got == LoadResult(regFile[Head(paths)])
             rest == yield(Tail(paths))
         IN IF got.status = "ok"
            THEN [items |-> <<got.rec>> \o rest.items, errors |-> rest.errors]
            ELSE [items |-> rest.items, errors |-> <<Head(paths)>> \o rest.errors]

list_instances == yield(sorted(glob)).items

\* ------------------------------------------------------------- registry calls
RegNames == {"db", "db-1", "db1"}

\* The records a caller may hand to save.
SaveArgs(name) ==
    {[NullRec EXCEPT !.name = name, !.port = port, !.mysql_version = v,
                     !.root_password_set = flag, !.created_at = clock,
                     !.last_modified = clock] :
        port \in {DefaultPort}, v \in VersionArgs \cup {NoVersion},
        flag \in BOOLEAN}

registry_save(instance, crash) ==
    LET t == clock + 1
        name == instance.name
    IN
    /\ faults' = IF crash THEN faults + 1 ELSE faults
    /\ faults' <= MaxFaults
    /\ clock' = t
    /\ clock' <= MaxClock
    /\ regFile' = [regFile EXCEPT ![name] = SavedFile(instance, t, crash)]
    /\ last' = [NoCall EXCEPT !.op = "save", !.name = name,
                              !.result = IF crash THEN "crash" ELSE "ok",
                              !.had = exists(name),
                              !.arg = <<[instance EXCEPT !.last_modified = t]>>]
    /\ UNCHANGED <<host, proc, disk, wait, my_cnf, dirs, dataInit, cnf, errlog, pwfile, unit, svc, srv,
                   altered, partial, shown>>

RegistrySave ==
    \E name \in Universe, crash \in BOOLEAN :
        \E instance \in SaveArgs(name) : registry_save(instance, crash)

registry_load(name) ==
    LET got == load(name) IN
    /\ last' = [NoCall EXCEPT !.op = "load", !.name = name,
                              !.result = got.status, !.had = exists(name),
                              !.value = IF got.status = "ok" THEN <<got.rec>>
                                        ELSE <<>>]
    /\ UNCHANGED others

RegistryLoad == \E name \in Universe : registry_load(name)

registry_delete(name) ==
    LET done == delete(name) IN
    /\ regFile' = [regFile EXCEPT ![name] = done.file]
    /\ last' = [NoCall EXCEPT !.op = "delete", !.name = name,
                              !.result = done.status, !.had = exists(name)]
    /\ UNCHANGED <<host, proc, disk, wait, my_cnf, dirs, dataInit, cnf, errlog, pwfile, unit, svc, srv, clock,
                   faults, altered, partial, shown>>

RegistryDelete == \E name \in Universe : registry_delete(name)

registry_list ==
    LET out == yield(sorted(glob)) IN
    /\ last' = [NoCall EXCEPT !.op = "list", !.result = "ok",
                              !.value = out.items, !.errors = out.errors]
    /\ UNCHANGED others

RegistryList == registry_list


\* ------------------------------------------------------------- helpers of create
\* suggest_port: the loop "candidate = 3306; while candidate in ports: += 1".
\* (variant: "if" instead of "while", a single step past a claimed port)
scan_Once(ports, candidate) ==
    IF candidate \in ports THEN candidate + 1 ELSE candidate

RECURSIVE scan(_, _)
scan(ports, candidate) ==
    IF candidate \in ports THEN scan(ports, candidate + 1) ELSE candidate

suggest_port ==
    scan({list_instances[i].port : i \in DOMAIN list_instances}, DefaultPort)

\* _ensure_port_available: passes unless connect_ex to 127.0.0.1:port
\* succeeds. `busy` is the result of the connect.
_ensure_port_available(port, busy) == ~busy

\* The connect succeeds when one of the running servers listens on the port;
\* otherwise a process outside the registry may or may not listen there.
ServerListens(port) ==
    \E m \in Universe : (svc[m] \/ srv[m]) /\ cnf[m].exists /\ cnf[m].port = port

_render_config(port, paths) ==
    [exists |-> TRUE, port |-> port, client_port |-> port,
     max_connections |-> <<"2", "0", "0">>]

\* Log lines are sequences of words. The marker test
\* ("temporary password" in line.lower()) is modelled on whole words.
Lower(w) == IF w = "Temporary" THEN "temporary" ELSE w
NoToken == ""
MarkerLine == <<"Note", "Temporary", "password", "root@localhost:", "tmpA">>
PlainLine == <<"Note", "ready">>

HasMarker(line) ==
    \E i \in 1..(Len(line) - 1) :
        Lower(line[i]) = "temporary" /\ Lower(line[i + 1]) = "password"

(* variant: the first marker line of the log wins *)
scanReversed_First(lines, i) ==
    LET marked == {j \in 1..i : HasMarker(lines[j])}
    IN IF marked = {} THEN NoToken
       ELSE LET j == CHOOSE j \in marked : \A k \in marked : j <= k
            IN lines[j][Len(lines[j])]

RECURSIVE scanReversed(_, _)
scanReversed(lines, i) ==
    IF i = 0 THEN NoToken
    ELSE IF HasMarker(lines[i]) THEN lines[i][Len(lines[i])]
    ELSE scanReversed(lines, i - 1)

_extract_temporary_password(log) ==
    IF ~log.exists THEN NoToken ELSE scanReversed(log.lines, Len(log.lines))

\* A marker line of another initialization, with another password.
OtherMarkerLine ==
    <<"Note", "A", "temporary", "password", "is", "generated", "tmpB">>

\* mysqld appends a line to the error log of an instance, creating the log
\* when it is not there.
MysqldLogs ==
    \E name \in Names, line \in {MarkerLine, OtherMarkerLine, PlainLine} :
        /\ Len(errlog[name].lines) < MaxLogLines
        /\ errlog' = [errlog EXCEPT ![name] =
                        [exists |-> TRUE, lines |-> Append(@.lines, line)]]
        /\ last' = [NoCall EXCEPT !.op = "mysqld", !.name = name]
        /\ UNCHANGED <<host, proc, disk, wait, my_cnf, regFile, dirs, dataInit, cnf, pwfile, unit,
                       svc, srv, clock, faults, altered, partial, shown>>

\* _extract_temporary_password on the error log of an instance.
ExtractTemporaryPassword ==
    \E name \in Names :
        /\ last' = [NoCall EXCEPT
                      !.op = "_extract_temporary_password", !.name = name,
                      !.result = _extract_temporary_password(errlog[name])]
        /\ UNCHANGED others

(* variant: mysqld --initialize runs whatever the data directory holds *)
_initialize_datadir_Always(nonEmpty) == TRUE

\* _initialize_datadir: "if any(datadir.iterdir()): return", so
\* mysqld --initialize runs only for an empty data directory.
_initialize_datadir(nonEmpty) == ~nonEmpty

\* _bootstrap_root_password: "if not temp_password: return False", so the
\* server is started only with a temporary password in hand.
\* (variant: the guard on the temporary password is missing)
BootstrapRuns_Always(temp_password) == TRUE

BootstrapRuns(temp_password) == temp_password # NoToken

\* Its return value: True only after the ALTER USER command returned 0.
\* (variant: the skipped bootstrap reports success)
BootstrapReturn_TrueWhenSkipped(temp_password, alterOk) ==
    IF ~BootstrapRuns(temp_password) THEN TRUE ELSE alterOk

BootstrapReturn(temp_password, alterOk) ==
    IF ~BootstrapRuns(temp_password) THEN FALSE ELSE alterOk

\* The finally clause: mysqladmin shutdown runs once the try block was
\* entered, that is once the mysqld start command returned 0.
\* (variant: no finally clause, the shutdown is never issued)
ShutdownRuns_Never(started) == FALSE

ShutdownRuns(started) == started

\* The temporary password that _extract_temporary_password finds in a
\* retained error log is the one of the initialization that wrote it. When
\* mysqld --initialize did not run in this create and the ALTER USER of an
\* earlier create changed the root password of the data directory, the
\* mysql client started with -p{temp_password} is refused.
\* (variant: the server accepts the temporary password for ever)
StaleTemporaryPassword_Never(ranInit, wasAltered) == FALSE

StaleTemporaryPassword(ranInit, wasAltered) == ~ranInit /\ wasAltered

CreateFailPoints == {"none", "config", "init", "store", "mysqld", "socket", "alter"}

\* What the environment decides during one create: the result of the port
\* probe, the step that fails (if any), whether mysqld --initialize logs a
\* temporary password, whether a failed initialization leaves files behind,
\* whether the server is down when the wait for its socket ends, and whether
\* the process dies inside the record write. Choices that cannot matter for
\* the chosen failure are fixed.
CreateEnv ==
    {e \in [busy : BOOLEAN, fail : CreateFailPoints, marker : BOOLEAN,
            initLeft : BOOLEAN, down : BOOLEAN, crash : BOOLEAN] :
        /\ e.busy => e.fail = "config"
        /\ e.fail \in {"config", "init"} => e.marker /\ e.down /\ ~e.crash
        /\ e.fail # "init" => ~e.initLeft
        /\ e.fail = "store" => e.down /\ ~e.crash
        /\ e.fail \in {"mysqld", "socket", "alter"} => e.marker /\ ~e.crash
        /\ e.fail = "mysqld" => e.down
        /\ ~e.marker => e.down}

NewInstance(name, port, paths, mysql_version, now) ==
    [name |-> name, port |-> port, socket |-> paths.socket,
     datadir |-> paths.datadir, config_path |-> paths.config_path,
     log_dir |-> paths.log_dir, error_log |-> paths.error_log,
     slow_log |-> paths.slow_log, pid_file |-> paths.pid_file,
     runtime_dir |-> paths.runtime_dir, backup_dir |-> paths.backup_dir,
     mysql_version |-> mysql_version, created_at |-> now,
     last_modified |-> now, systemd_unit |-> <<"mysqld-", name, ".service">>,
     root_password_path |-> <<paths.conf_dir[1], paths.conf_dir[2], "root-password.txt">>,
     root_password_set |-> FALSE]

\* ------------------------------------------------------------- create
create_instance(name, portArg, mysql_version, e) ==
    LET port == IF portArg = NoPort THEN suggest_port ELSE portArg
        paths == _generate_paths(name)
        call == [NoCall EXCEPT !.op = "create", !.name = name]
    IN
    IF exists(name) THEN
        /\ last' = [call EXCEPT !.result = "AlreadyExists"]
        /\ UNCHANGED others
    ELSE IF ~_ensure_port_available(port, e.busy) THEN
        /\ last' = [call EXCEPT !.result = "PortUnavailable"]
        /\ UNCHANGED others
    ELSE
        LET \* _ensure_paths: the five directories, and the log files touched
            log1 == IF errlog[name].exists THEN errlog[name]
                    ELSE [exists |-> TRUE, lines |-> <<>>]
            \* _write_config
            okConfig == e.fail # "config"
            \* _initialize_datadir: skipped when the data directory is not empty
            ranInit == okConfig /\ _initialize_datadir(dataInit[name])
            okInit == okConfig /\ (ranInit => e.fail # "init")
            data1 == IF ~ranInit THEN dataInit[name]
                     ELSE IF e.fail = "init" THEN e.initLeft ELSE TRUE
            log2 == IF ranInit /\ okInit
                    THEN [log1 EXCEPT !.lines =
                            Append(@, IF e.marker THEN MarkerLine ELSE PlainLine)]
                    ELSE log1
            temp == _extract_temporary_password(log2)
            \* _store_root_password
            okStore == okInit /\ e.fail # "store"
            now == clock + 1
            instance == NewInstance(name, port, paths, mysql_version, now)
            \* _bootstrap_root_password
            boot == okStore /\ BootstrapRuns(temp)
            started == boot /\ e.fail # "mysqld"
            sockOk == started /\ e.fail # "socket"
            \* the server refuses the temporary password of the log once
            \* the root password of the retained data directory was changed
            stale == StaleTemporaryPassword(ranInit, altered[name])
            alterOk == sockOk /\ e.fail # "alter" /\ ~stale
            shutdown == ShutdownRuns(started)
            srv1 == IF started THEN (IF shutdown THEN ~e.down ELSE TRUE)
                    ELSE srv[name]
            warned == started /\ (srv1 \/ svc[name])
            raised == boot /\ ~alterOk
            reachedSave == okStore /\ ~raised
            saved == reachedSave /\ ParentExists(name)
            t == now + 1
            toSave == [instance EXCEPT
                         !.root_password_set = BootstrapReturn(temp, alterOk)]
            fault == (~reachedSave /\ ~(stale /\ sockOk /\ e.fail # "alter"))
                     \/ (started /\ ~e.down) \/ e.crash
            failedAt == IF ~okConfig THEN "config"
                        ELSE IF ~okInit THEN "init"
                        ELSE IF ~okStore THEN "store"
                        ELSE IF ~started THEN "mysqld"
                        ELSE IF ~sockOk THEN "socket"
                        ELSE "alter"
        IN
        /\ ranInit /\ okInit => Len(log1.lines) < MaxLogLines
        /\ faults' = IF fault THEN faults + 1 ELSE faults
        /\ faults' <= MaxFaults
        /\ dirs' = [dirs EXCEPT ![name] = DirKeys]
        /\ cnf' = [cnf EXCEPT ![name] =
                     IF okConfig THEN _render_config(port, paths) ELSE @]
        /\ dataInit' = [dataInit EXCEPT ![name] = data1]
        /\ errlog' = [errlog EXCEPT ![name] = log2]
        /\ pwfile' = [pwfile EXCEPT ![name] = okStore \/ @]
        /\ srv' = [srv EXCEPT ![name] = srv1]
        /\ altered' = [altered EXCEPT ![name] =
                         IF ranInit THEN alterOk ELSE @ \/ alterOk]
        /\ regFile' = [regFile EXCEPT ![name] =
                         IF saved THEN SavedFile(toSave, t, e.crash) ELSE @]
        /\ clock' = IF reachedSave THEN t ELSE clock
        /\ partial' = [partial EXCEPT ![name] = ~saved]
        /\ last' = [call EXCEPT
                      !.result = IF ~reachedSave THEN failedAt
                                 ELSE IF ~saved THEN "FileNotFound"
                                 ELSE IF e.crash THEN "crash" ELSE "ok",
                      !.portArg = portArg,
                      !.extract = IF ~okInit THEN "unreached"
                                  ELSE IF temp = NoToken THEN "none" ELSE "found",
                      !.started = boot,
                      !.alterIssued = sockOk,
                      !.alterOk = alterOk,
                      !.shutdownIssued = shutdown,
                      !.warned = warned,
                      !.ran = ranInit]
        /\ UNCHANGED <<host, proc, disk, wait, my_cnf, unit, svc, shown>>

QuietCreateEnv ==
    [busy |-> FALSE, fail |-> "none", marker |-> TRUE, initLeft |-> FALSE,
     down |-> TRUE, crash |-> FALSE]

CreateEnvFor(name, portArg, v, e) ==
    /\ exists(name) => e = QuietCreateEnv
    /\ ServerListens(IF portArg = NoPort THEN suggest_port ELSE portArg) => e.busy
    /\ dataInit[name] => e.fail # "init"
    /\ faults = MaxFaults => e.fail = "none" /\ e.down /\ ~e.crash

CreateInstance ==
    \E name \in Names, portArg \in PortArgs, v \in VersionArgs, e \in CreateEnv :
        /\ CreateEnvFor(name, portArg, v, e)
        /\ create_instance(name, portArg, v, e)
        /\ clock' <= MaxClock

\* Creates in which no step fails, next to the service operations.
CreateService ==
    \E name \in Names, portArg \in {NoPort},
       e \in {[QuietCreateEnv EXCEPT !.marker = m] : m \in BOOLEAN} :
        /\ CreateEnvFor(name, portArg, "8.0", e)
        /\ create_instance(name, portArg, "8.0", e)
        /\ clock' <= MaxClock

\* Creates alone, on a host with one more instance name, where nothing
\* fails but the port probe and the record write.
CreatePorts ==
    \E name \in Universe, portArg \in PortArgs, e \in CreateEnv :
        /\ CreateEnvFor(name, portArg, "8.0", e)
        /\ e.fail = "none" \/ e.busy
        /\ e.down
        /\ create_instance(name, portArg, "8.0", e)
        /\ clock' <= MaxClock + 2

\* _generate_paths on its own, for any name the host knows.
GeneratePaths ==
    \E name \in Universe :
        /\ last' = [NoCall EXCEPT !.op = "_generate_paths", !.name = name,
                                  !.paths = _generate_paths(name)]
        /\ UNCHANGED others

\* ------------------------------------------------------------- remove
\* shutil.rmtree(path): every instance directory at or under the path goes.
IsPrefix(p, q) == Len(p) <= Len(q) /\ \A i \in 1..Len(p) : p[i] = q[i]

rmtree(d, path) ==
    [n \in DOMAIN d |-> d[n] \ {k \in DirKeys : IsPrefix(path, _generate_paths(n)[k])}]

PathExists(d, path) ==
    \E n \in DOMAIN d, k \in DirKeys : k \in d[n] /\ _generate_paths(n)[k] = path

\* (variant: keep_data is not consulted)
RemoveSteps_IgnoreKeep(instance, keep_data) ==
    <<instance.datadir, instance.log_dir, instance.runtime_dir,
      Parent(instance.config_path), instance.backup_dir>>

\* The directories remove_instance deletes, in its order, for a record.
RemoveSteps(instance, keep_data) ==
    (IF keep_data THEN <<>> ELSE <<instance.datadir, instance.log_dir>>)
    \o <<instance.runtime_dir, Parent(instance.config_path)>>
    \o (IF keep_data THEN <<>> ELSE <<instance.backup_dir>>)

\* The directories after the first `upto` deletion steps have run.
\* ("if path.exists(): shutil.rmtree(path)": nothing goes when nothing is there)
RECURSIVE removeDirs(_, _, _)
removeDirs(d, steps, upto) ==
    IF upto = 0 THEN d
    ELSE rmtree(removeDirs(d, steps, upto - 1), steps[upto])

\* What the environment decides during one remove: whether systemctl stop
\* stops the service, whether daemon-reload fails, and the deletion step
\* (1..5) at which rmtree raises (0: none).
RemoveEnv ==
    {e \in [stopOk : BOOLEAN, reloadFails : BOOLEAN, rmFails : 0..5] :
        e.reloadFails => e.rmFails = 0}

\* registry.delete(name) is the last statement of remove_instance: it is
\* reached when no statement before it raised.
\* (variant: the record is deleted first, before the directories)
reaches_delete_First(reloadFailed, failStep) == TRUE

reaches_delete(reloadFailed, failStep) == ~reloadFailed /\ failStep = 0

remove_instance(name, keep_data, e) ==
    LET call == [NoCall EXCEPT !.op = "remove", !.name = name]
        got == load(name)
    IN
    IF got.status # "ok" THEN
        /\ last' = [call EXCEPT !.result = got.status]
        /\ UNCHANGED others
    ELSE
        LET instance == got.rec
            stopFailed == svc[name] /\ ~e.stopOk
            reloadFailed == unit[name] /\ e.reloadFails
            steps == RemoveSteps(instance, keep_data)
            \* rmtree raises only at a step whose directory exists
            failStep == IF reloadFailed \/ e.rmFails = 0 \/ e.rmFails > Len(steps)
                        THEN 0
                        ELSE IF PathExists(removeDirs(dirs, steps, e.rmFails - 1),
                                           steps[e.rmFails])
                        THEN e.rmFails ELSE 0
            done == IF reloadFailed THEN 0
                    ELSE IF failStep > 0 THEN failStep - 1 ELSE Len(steps)
            finished == reaches_delete(reloadFailed, failStep)
            fault == stopFailed \/ reloadFailed \/ failStep > 0
        IN
        /\ faults' = IF fault THEN faults + 1 ELSE faults
        /\ faults' <= MaxFaults
        /\ svc' = [svc EXCEPT ![name] = IF e.stopOk THEN FALSE ELSE @]
        /\ unit' = [unit EXCEPT ![name] = FALSE]
        /\ dirs' = removeDirs(dirs, steps, done)
        /\ dataInit' = [n \in Universe |-> dataInit[n] /\ "datadir" \in dirs'[n]]
        /\ errlog' = [n \in Universe |-> IF "log_dir" \in dirs'[n] THEN errlog[n] ELSE NoLog]
        /\ cnf' = [n \in Universe |-> IF "conf_dir" \in dirs'[n] THEN cnf[n] ELSE NoCnf]
        /\ pwfile' = [n \in Universe |-> pwfile[n] /\ "conf_dir" \in dirs'[n]]
        /\ regFile' = [regFile EXCEPT ![name] = IF finished THEN AbsentFile ELSE @]
        /\ last' = [call EXCEPT
                      !.result = IF reloadFailed THEN "reload"
                                 ELSE IF failStep > 0 THEN "rmtree" ELSE "ok",
                      !.keep = keep_data,
                      !.systemctl = <<"stop", "disable">>
                          \o (IF unit[name] THEN <<"daemon-reload">> ELSE <<>>)]
        /\ UNCHANGED <<host, proc, disk, wait, my_cnf, srv, clock, altered, partial, shown>>

\* Choices of the environment that cannot matter in the current state are
\* fixed, so that each outcome is produced once.
RemoveEnvFor(name, e) ==
    /\ ~(load(name).status = "ok" /\ svc[name]) => e.stopOk
    /\ ~(load(name).status = "ok" /\ unit[name]) => ~e.reloadFails
    /\ load(name).status # "ok" \/ faults = MaxFaults =>
          e.stopOk /\ ~e.reloadFails /\ e.rmFails = 0

RemoveInstance ==
    \E name \in Names, keep_data \in BOOLEAN, e \in RemoveEnv :
        /\ RemoveEnvFor(name, e)
        /\ remove_instance(name, keep_data, e)

\* ------------------------------------------------------------- start, stop, restart, status
\* What the environment decides during one start: mysqld is in PATH,
\* daemon-reload works, systemctl start works.
StartEnv ==
    {e \in [fail : {"none", "binary", "reload", "start"}] : TRUE}

\* "if not unit_path.exists()": the unit is rendered and written only then.
\* (variant: the unit is written on every start)
WritesUnit_Always(unitExists) == TRUE

WritesUnit(unitExists) == ~unitExists

start_instance(name, e) ==
    LET call == [NoCall EXCEPT !.op = "start", !.name = name]
        got == load(name)
    IN
    IF got.status # "ok" THEN
        /\ last' = [call EXCEPT !.result = got.status]
        /\ UNCHANGED others
    ELSE
        LET render == WritesUnit(unit[name])
            failedAt == IF render /\ e.fail = "binary" THEN "binary"
                        ELSE IF render /\ e.fail = "reload" THEN "reload"
                        ELSE IF e.fail = "start" THEN "start" ELSE "none"
        IN
        /\ faults' = IF failedAt # "none" THEN faults + 1 ELSE faults
        /\ faults' <= MaxFaults
        /\ unit' = [unit EXCEPT ![name] = @ \/ failedAt # "binary"]
        /\ svc' = [svc EXCEPT ![name] = @ \/ failedAt = "none"]
        /\ last' = [call EXCEPT
                      !.result = IF failedAt = "none" THEN "ok" ELSE failedAt,
                      !.had = unit[name],
                      !.wroteUnit = render /\ failedAt # "binary",
                      !.startIssued = failedAt \in {"none", "start"},
                      !.systemctl =
                          (IF render /\ failedAt # "binary"
                           THEN <<"daemon-reload">> ELSE <<>>)
                          \o (IF failedAt \in {"none", "start"}
                               THEN <<"start">> ELSE <<>>)]
        /\ UNCHANGED <<host, proc, disk, wait, my_cnf, regFile, dirs, dataInit, cnf, errlog, pwfile, srv, clock,
                       altered, partial, shown>>

StartInstance ==
    \E name \in Names, e \in StartEnv :
        /\ load(name).status # "ok" \/ faults = MaxFaults => e.fail = "none"
        /\ unit[name] => e.fail \in {"none", "start"}
        /\ start_instance(name, e)

stop_instance(name, stopOk) ==
    LET call == [NoCall EXCEPT !.op = "stop", !.name = name]
        got == load(name)
    IN
    IF got.status # "ok" THEN
        /\ last' = [call EXCEPT !.result = got.status]
        /\ UNCHANGED others
    ELSE
        /\ faults' = IF svc[name] /\ ~stopOk THEN faults + 1 ELSE faults
        /\ faults' <= MaxFaults
        /\ svc' = [svc EXCEPT ![name] = IF stopOk THEN FALSE ELSE @]
        /\ last' = [call EXCEPT !.result = "ok", !.systemctl = <<"stop">>]
        /\ UNCHANGED <<host, proc, disk, wait, my_cnf, regFile, dirs, dataInit, cnf, errlog, pwfile, unit, srv,
                       clock, altered, partial, shown>>

StopInstance ==
    \E name \in Names, stopOk \in BOOLEAN :
        /\ ~(load(name).status = "ok" /\ svc[name]) => stopOk
        /\ stop_instance(name, stopOk)

\* systemctl restart, check=True: a failure raises and leaves the service
\* stopped; without a unit file it always fails.
restart_instance(name, restartOk) ==
    LET call == [NoCall EXCEPT !.op = "restart", !.name = name]
        got == load(name)
        ok == restartOk /\ unit[name]
    IN
    IF got.status # "ok" THEN
        /\ last' = [call EXCEPT !.result = got.status]
        /\ UNCHANGED others
    ELSE
        /\ faults' = IF ~restartOk THEN faults + 1 ELSE faults
        /\ faults' <= MaxFaults
        /\ svc' = [svc EXCEPT ![name] = ok]
        /\ last' = [call EXCEPT !.result = IF ok THEN "ok" ELSE "restart",
                                !.systemctl = <<"restart">>]
        /\ UNCHANGED <<host, proc, disk, wait, my_cnf, regFile, dirs, dataInit, cnf, errlog, pwfile, unit, srv,
                       clock, altered, partial, shown>>

RestartInstance ==
    \E name \in Names, restartOk \in BOOLEAN :
        /\ load(name).status # "ok" => restartOk
        /\ restart_instance(name, restartOk)

status_instance(name) ==
    LET call == [NoCall EXCEPT !.op = "status", !.name = name]
        got == load(name)
    IN
    /\ last' = [call EXCEPT !.result = got.status,
                            !.systemctl = IF got.status = "ok"
                                          THEN <<"status">> ELSE <<>>]
    /\ UNCHANGED others

StatusInstance == \E name \in Names : status_instance(name)

\* ------------------------------------------------------------- set-parameter
\* Parameter values are strings of characters.
Digits == {"0", "1", "2", "3", "4", "5", "6", "7", "8", "9"}
isdigit(value) == Len(value) > 0 /\ \A i \in 1..Len(value) : value[i] \in Digits

NUMERIC_PARAMS == {"max_connections", "innodb_buffer_pool_instances",
                   "innodb_io_capacity", "thread_cache_size"}

SIZE_PARAMS == {"innodb_buffer_pool_size", "innodb_log_file_size",
                "tmp_table_size", "innodb_log_buffer_size"}

BOOLEAN_PARAMS == {"slow_query_log", "skip_name_resolve", "log_bin"}

\* SIZE_PATTERN ^\d+[KMGTP]?$ with re.IGNORECASE
SIZE_PATTERN(value) ==
    \/ isdigit(value)
    \/ /\ Len(value) > 1
       /\ isdigit(SubSeq(value, 1, Len(value) - 1))
       /\ value[Len(value)] \in {"K", "M", "G", "T", "P", "k", "m", "g", "t", "p"}

\* str.lower, on the letters of the boolean words
lower(value) ==
    [i \in DOMAIN value |->
        CASE value[i] = "O" -> "o" [] value[i] = "N" -> "n"
          [] value[i] = "F" -> "f" [] value[i] = "T" -> "t"
          [] value[i] = "R" -> "r" [] value[i] = "U" -> "u"
          [] value[i] = "E" -> "e" [] value[i] = "A" -> "a"
          [] value[i] = "L" -> "l" [] value[i] = "S" -> "s"
          [] OTHER -> value[i]]

(* variant: no value is ever rejected *)
validate_parameter_Never(name, value) == FALSE

\* validate_parameter: TRUE when it raises ValueError.
validate_parameter(name, value) ==
    \/ name \in NUMERIC_PARAMS /\ ~isdigit(value)
    \/ name \in SIZE_PARAMS /\ ~(isdigit(value) \/ SIZE_PATTERN(value))
    \/ name \in BOOLEAN_PARAMS
         /\ lower(value) \notin {<<"o", "n">>, <<"o", "f", "f">>,
                                 <<"t", "r", "u", "e">>,
                                 <<"f", "a", "l", "s", "e">>, <<"1">>, <<"0">>}

ParamArgs == {"max_connections"}
ValueArgs == {<<"5", "0", "0">>, <<"a", "b", "c">>}

\* cli.set_parameter_cmd: load, parameters.set_parameter, registry.save and,
\* unless --no-restart, restart.
set_parameter_cmd(name, parameter, value, no_restart, e) ==
    LET call == [NoCall EXCEPT !.op = "set-parameter", !.name = name]
        got == load(name)
    IN
    IF got.status # "ok" THEN
        /\ last' = [call EXCEPT !.result = got.status]
        /\ UNCHANGED others
    ELSE IF validate_parameter(parameter, value) THEN
        /\ last' = [call EXCEPT !.result = "InvalidParameterValue"]
        /\ UNCHANGED others
    ELSE IF "conf_dir" \notin dirs[name] THEN
        \* open(config_path, "w") in a directory that is gone
        /\ last' = [call EXCEPT !.result = "FileNotFound"]
        /\ UNCHANGED others
    ELSE
        LET t == clock + 1
            restarts == ~e.crash /\ ~no_restart
            restartOk == e.restartOk /\ unit[name]
        IN
        /\ t <= MaxClock
        /\ faults' = IF e.crash \/ (restarts /\ ~e.restartOk) THEN faults + 1 ELSE faults
        /\ faults' <= MaxFaults
        /\ cnf' = [cnf EXCEPT ![name] = [@ EXCEPT !.exists = TRUE,
                                                  !.max_connections = value]]
        /\ regFile' = [regFile EXCEPT ![name] = SavedFile(got.rec, t, e.crash)]
        /\ clock' = t
        /\ svc' = [svc EXCEPT ![name] = IF restarts THEN restartOk ELSE @]
        /\ last' = [call EXCEPT
                      !.result = IF e.crash THEN "crash"
                                 ELSE IF restarts /\ ~restartOk THEN "restart"
                                 ELSE "ok"]
        /\ UNCHANGED <<host, proc, disk, wait, my_cnf, dirs, dataInit, errlog, pwfile, unit, srv, altered,
                       partial, shown>>

SetParameterEnv == [crash : BOOLEAN, restartOk : BOOLEAN]

SetParameter ==
    \E name \in Names, parameter \in ParamArgs, value \in ValueArgs,
       no_restart \in BOOLEAN, e \in SetParameterEnv :
        /\ load(name).status # "ok" \/ validate_parameter(parameter, value)
             \/ faults = MaxFaults => ~e.crash /\ e.restartOk
        /\ load(name).status # "ok" \/ validate_parameter(parameter, value)
             => ~no_restart
        /\ e.crash \/ no_restart => e.restartOk
        /\ set_parameter_cmd(name, parameter, value, no_restart, e)

\* ------------------------------------------------------------- my.cnf as text
\* The text of a my.cnf is a sequence of lines: a section header, an option,
\* a comment or a blank line. delim is what stands between the key and the
\* value of an option: "=" as _render_config writes it, " = " as
\* ConfigParser.write writes it. A value is a sequence of characters or, for
\* a path, of path components.
Line(kind, key, delim, value) ==
    [kind |-> kind, key |-> key, delim |-> delim, value |-> value]

\* The decimal text of a port, as the f-string formats it.
RECURSIVE str(_)
str(n) ==
    LET digit(d) == <<"0", "1", "2", "3", "4", "5", "6", "7", "8", "9">>[d + 1]
    IN IF n < 10 THEN <<digit(n)>> ELSE str(n \div 10) \o <<digit(n % 10)>>

\* _render_config, line by line.
config_text(port, paths) ==
    << Line("section", "mysqld", "", <<>>),
       Line("option", "user", "=", <<"mysql">>),
       Line("option", "datadir", "=", paths.datadir),
       Line("option", "socket", "=", paths.socket),
       Line("option", "log-error", "=", paths.error_log),
       Line("option", "slow_query_log", "=", <<"O", "N">>),
       Line("option", "slow_query_log_file", "=", paths.slow_log),
       Line("option", "pid-file", "=", paths.pid_file),
       Line("option", "port", "=", str(port)),
       Line("blank", "", "", <<>>),
       Line("comment", "Default tuning (adjust via mysqlm set-parameter)", "", <<>>),
       Line("option", "innodb_buffer_pool_size", "=", <<"1", "G">>),
       Line("option", "max_connections", "=", <<"2", "0", "0">>),
       Line("option", "sql_mode", "=", <<"STRICT_TRANS_TABLES", ",",
                                "ERROR_FOR_DIVISION_BY_ZERO", ",",
                                "NO_ENGINE_SUBSTITUTION">>),
       Line("blank", "", "", <<>>),
       Line("section", "client", "", <<>>),
       Line("option", "port", "=", str(port)),
       Line("option", "socket", "=", paths.socket) >>

\* A parser is the ordered sections, each with its ordered options.
\* ConfigParser.read: a header opens a section, an option goes to the
\* section that is open, comments and blank lines are dropped; with
\* optionxform = str the keys keep their case.
RECURSIVE read(_, _, _)
read(lines, i, parser) ==
    IF i > Len(lines) THEN parser
    ELSE IF lines[i].kind = "section" THEN
        read(lines, i + 1,
             Append(parser, [name |-> lines[i].key, options |-> <<>>]))
    ELSE IF lines[i].kind = "option" /\ Len(parser) > 0 THEN
        read(lines, i + 1,
             [parser EXCEPT ![Len(parser)].options =
                 Append(@, [key |-> lines[i].key, value |-> lines[i].value])])
    ELSE read(lines, i + 1, parser)

\* _read_config: a missing file reads as nothing, and the mysqld section is
\* added when the file has none.
_read_config(file) ==
    LET parser == IF file.exists THEN read(file.lines, 1, <<>>) ELSE <<>>
    IN IF \E i \in DOMAIN parser : parser[i].name = "mysqld" THEN parser
       ELSE Append(parser, [name |-> "mysqld", options |-> <<>>])

(* variant: the assignment replaces the options of the section *)
setitem_Replace(options, key, value) == <<[key |-> key, value |-> value]>>

\* parser[section][key] = value: the value of a key that is there is
\* replaced where it stands, a new key goes to the end.
setitem(options, key, value) ==
    IF \E i \in DOMAIN options : options[i].key = key
    THEN [i \in DOMAIN options |->
            IF options[i].key = key THEN [options[i] EXCEPT !.value = value]
            ELSE options[i]]
    ELSE Append(options, [key |-> key, value |-> value])

\* ConfigParser.write: for each section its header, "key = value" for each
\* option, and a blank line.
RECURSIVE write(_, _)
write(parser, i) ==
    IF i > Len(parser) THEN <<>>
    ELSE <<Line("section", parser[i].name, "", <<>>)>>
         \o [j \in DOMAIN parser[i].options |->
                Line("option", parser[i].options[j].key, " = ",
                     parser[i].options[j].value)]
         \o <<Line("blank", "", "", <<>>)>>
         \o write(parser, i + 1)

\* parameters.set_parameter on the file: read, validate, assign, rewrite.
set_parameter(file, parameter, value) ==
    LET parser == _read_config(file)
        assigned == [i \in DOMAIN parser |->
                       IF parser[i].name = "mysqld"
                       THEN [parser[i] EXCEPT
                               !.options = setitem(@, parameter, value)]
                       ELSE parser[i]]
    IN IF validate_parameter(parameter, value)
       THEN [result |-> "InvalidParameterValue", file |-> file]
       ELSE [result |-> "ok",
             file |-> [exists |-> TRUE, lines |-> write(assigned, 1)]]

\* show_parameters without live values: the options of the mysqld section.
show_parameters(file) ==
    LET parser == _read_config(file)
        i == CHOOSE i \in DOMAIN parser : parser[i].name = "mysqld"
    IN parser[i].options

\* _write_config of what _render_config returns.
WriteConfig ==
    \E name \in Names, port \in Ports :
        /\ my_cnf' = [exists |-> TRUE,
                      lines |-> config_text(port, _generate_paths(name))]
        /\ last' = [NoCall EXCEPT !.op = "_write_config", !.name = name]
        /\ UNCHANGED <<host, proc, disk, wait, regFile, dirs, dataInit, cnf, errlog, pwfile, unit,
                       svc, srv, clock, faults, altered, partial, shown>>

\* set_parameter with a numeric, a size, a boolean and an untyped parameter.
SetParameterText ==
    \E parameter \in {"max_connections", "innodb_buffer_pool_size",
                      "slow_query_log", "wait_timeout"},
       value \in {<<"5", "0", "0">>, <<"a", "b", "c">>, <<"2", "G">>,
                  <<"o", "f", "f">>} :
        LET r == set_parameter(my_cnf, parameter, value) IN
        /\ my_cnf' = r.file
        /\ last' = [NoCall EXCEPT !.op = "set_parameter", !.result = r.result,
                                  !.arg = <<parameter>>, !.value = value]
        /\ UNCHANGED <<host, proc, disk, wait, regFile, dirs, dataInit, cnf, errlog, pwfile, unit,
                       svc, srv, clock, faults, altered, partial, shown>>

\* ------------------------------------------------------------- backup, restore
(* variant: a missing password file is not noticed *)
_read_root_password_Lenient(instance) == "ok"

\* backups._read_root_password: raises FileNotFoundError when the file at
\* root_password_path does not exist.
_read_root_password(instance) ==
    IF pwfile[instance.name] THEN "ok" ELSE "CredentialUnavailable"

\* cli.backup: load, then perform_backup. dumpOk is whether mysqldump exits
\* with 0. The target directory is <backup_dir>/<stamp>, made with its
\* parents.
perform_backup(name, dumpOk) ==
    LET call == [NoCall EXCEPT !.op = "backup", !.name = name]
        got == load(name)
    IN
    IF got.status # "ok" THEN
        /\ last' = [call EXCEPT !.result = got.status]
        /\ UNCHANGED others
    ELSE IF _read_root_password(got.rec) # "ok" THEN
        /\ last' = [call EXCEPT !.result = _read_root_password(got.rec)]
        /\ UNCHANGED others
    ELSE
        /\ dirs' = [dirs EXCEPT ![name] = @ \cup {"backup_dir"}]
        /\ last' = [call EXCEPT
                      !.result = IF dumpOk THEN "ok" ELSE "CommandError",
                      !.readSecret = TRUE, !.madeDir = TRUE, !.ran = TRUE]
        /\ UNCHANGED <<host, proc, disk, wait, my_cnf, regFile, dataInit, cnf, errlog, pwfile, unit,
                       svc, srv, clock, faults, altered, partial, shown>>

Backup ==
    \E name \in Names, dumpOk \in BOOLEAN :
        /\ load(name).status # "ok" \/ ~pwfile[name] => dumpOk
        /\ perform_backup(name, dumpOk)

\* cli.restore: load, then restore_backup. archive is whether backup_file
\* exists, restoreOk whether the mysql client exits with 0.
restore_backup(name, archive, restoreOk) ==
    LET call == [NoCall EXCEPT !.op = "restore", !.name = name]
        got == load(name)
        reads == archive /\ got.status = "ok"
        runs == reads /\ _read_root_password(got.rec) = "ok"
    IN
    /\ last' = [call EXCEPT
                  !.result = IF got.status # "ok" THEN got.status
                             ELSE IF ~archive THEN "ArchiveNotFound"
                             ELSE IF ~runs THEN _read_root_password(got.rec)
                             ELSE IF restoreOk THEN "ok" ELSE "CommandError",
                  !.had = archive, !.readSecret = reads, !.ran = runs]
    /\ UNCHANGED others

Restore ==
    \E name \in Names, archive \in BOOLEAN, restoreOk \in BOOLEAN :
        /\ load(name).status # "ok" => archive
        /\ load(name).status # "ok" \/ ~archive \/ ~pwfile[name] => restoreOk
        /\ restore_backup(name, archive, restoreOk)

\* ------------------------------------------------------------- upgrade
UpgradeFailPoints == {"none", "backup", "install", "binary", "reload", "start",
                      "socket", "mysql_upgrade", "restart"}

UpgradeEnv == [fail : UpgradeFailPoints, stopOk : BOOLEAN, crash : BOOLEAN]

\* "instance.mysql_version = version.version; self.registry.save(instance)"
\* are the last statements: reached when restart_instance returned.
\* (variant: the version is saved before the restart)
reaches_save_BeforeRestart(okUpgrade, okRestart) == okUpgrade

reaches_save(okUpgrade, okRestart) == okRestart

upgrade_instance(name, target, take_backup, e) ==
    LET call == [NoCall EXCEPT !.op = "upgrade", !.name = name]
        got == load(name)
    IN
    IF got.status # "ok" THEN
        /\ last' = [call EXCEPT !.result = got.status]
        /\ UNCHANGED others
    ELSE IF take_backup /\ ~pwfile[name] THEN
        \* backups._read_root_password raises FileNotFoundError
        /\ last' = [call EXCEPT !.result = "FileNotFound"]
        /\ UNCHANGED others
    ELSE
        LET okBackup == ~(take_backup /\ e.fail = "backup")
            stopped == okBackup
            stopFailed == stopped /\ svc[name] /\ ~e.stopOk
            svc1 == IF stopped /\ e.stopOk THEN FALSE ELSE svc[name]
            okInstall == okBackup /\ e.fail # "install"
            \* start_instance
            render == okInstall /\ ~unit[name]
            okRender == okInstall /\ (render => e.fail \notin {"binary", "reload"})
            unit1 == unit[name] \/ (render /\ e.fail # "binary")
            okStart == okRender /\ e.fail # "start"
            svc2 == svc1 \/ okStart
            okSocket == okStart /\ e.fail # "socket"
            \* Path(root_password_path).read_text()
            okRead == okSocket /\ pwfile[name]
            okUpgrade == okRead /\ e.fail # "mysql_upgrade"
            okRestart == okUpgrade /\ e.fail # "restart"
            svc3 == IF okUpgrade THEN okRestart ELSE svc2
            reachedSave == reaches_save(okUpgrade, okRestart)
            t == clock + 1
            failedAt == IF ~okBackup THEN "backup"
                        ELSE IF ~okInstall THEN "install"
                        ELSE IF ~okRender THEN e.fail
                        ELSE IF ~okStart THEN "start"
                        ELSE IF ~okSocket THEN "socket"
                        ELSE IF ~okRead THEN "FileNotFound"
                        ELSE IF ~okUpgrade THEN "mysql_upgrade"
                        ELSE "restart"
            fault == stopFailed \/ (reachedSave /\ e.crash)
                     \/ (~okRestart /\ failedAt # "FileNotFound")
        IN
        /\ reachedSave => t <= MaxClock
        /\ faults' = IF fault THEN faults + 1 ELSE faults
        /\ faults' <= MaxFaults
        /\ dirs' = [dirs EXCEPT ![name] = IF take_backup THEN @ \cup {"backup_dir"} ELSE @]
        /\ unit' = [unit EXCEPT ![name] = unit1]
        /\ svc' = [svc EXCEPT ![name] = svc3]
        /\ regFile' = [regFile EXCEPT ![name] =
                         IF reachedSave
                         THEN SavedFile([got.rec EXCEPT !.mysql_version = target],
                                        t, e.crash)
                         ELSE @]
        /\ clock' = IF reachedSave THEN t ELSE clock
        /\ last' = [call EXCEPT
                      !.result = IF ~okRestart THEN failedAt
                                 ELSE IF e.crash THEN "crash" ELSE "ok",
                      !.stopped = stopped /\ ~svc1]
        /\ UNCHANGED <<host, proc, disk, wait, my_cnf, dataInit, cnf, errlog, pwfile, srv, altered, partial, shown>>

UpgradeEnvFor(name, take_backup, e) ==
    /\ load(name).status # "ok" \/ (take_backup /\ ~pwfile[name]) \/ faults = MaxFaults
         => e.fail = "none" /\ e.stopOk /\ ~e.crash
    /\ load(name).status # "ok" => take_backup
    /\ ~take_backup => e.fail # "backup"
    /\ unit[name] => e.fail \notin {"binary", "reload"}
    /\ ~svc[name] \/ e.fail = "backup" => e.stopOk
    /\ e.fail # "none" \/ ~pwfile[name] => ~e.crash

UpgradeInstance ==
    \E name \in Names, target \in UpgradeTargets, take_backup \in BOOLEAN,
       e \in UpgradeEnv :
        /\ UpgradeEnvFor(name, take_backup, e)
        /\ upgrade_instance(name, target, take_backup, e)

\* ------------------------------------------------------------- run_command
\* Texts are sequences of characters.
Letters == {"a", "b"}
MaskText == <<"*", "*", "*", "*", "*", "*">>

TextsUpTo(n) == UNION {[1..k -> Letters] : k \in 0..n}
SecretArgs == TextsUpTo(MaxSecretLen) \ {<<>>}
OutputArgs == TextsUpTo(MaxOutLen)

\* str.replace(old, new), old not empty: leftmost occurrences, not overlapping.
RECURSIVE replace(_, _, _)
replace(text, old, new) ==
    IF Len(text) < Len(old) THEN text
    ELSE IF SubSeq(text, 1, Len(old)) = old
    THEN new \o replace(SubSeq(text, Len(old) + 1, Len(text)), old, new)
    ELSE <<Head(text)>> \o replace(Tail(text), old, new)

\* _mask: "for secret in mask_secrets: if secret: masked = masked.replace(...)"
RECURSIVE _mask(_, _)
_mask(text, mask_secrets) ==
    IF mask_secrets = <<>> THEN text
    ELSE _mask(IF Head(mask_secrets) # <<>>
               THEN replace(text, Head(mask_secrets), MaskText) ELSE text,
               Tail(mask_secrets))

\* " ".join(cmd)
RECURSIVE join(_)
join(cmd) ==
    IF cmd = <<>> THEN <<>>
    ELSE IF Len(cmd) = 1 THEN cmd[1]
    ELSE cmd[1] \o <<" ">> \o join(Tail(cmd))

\* "Executing command: %s" is logged with the masked display command.
DisplayCmd(cmd, mask_secrets) == _mask(join(cmd), mask_secrets)

\* CommandError.__str__: the command, stdout and stderr it was built with.
CommandErrorText(command, stdout, stderr) ==
    join(command) \o <<" ">> \o stdout \o <<" ">> \o stderr

\* The text of the CommandError that run_command raises: it is built from
\* cmd, result.stdout and result.stderr.
RaisedText(cmd, stdout, stderr, mask_secrets) ==
    CommandErrorText(cmd, stdout, stderr)

\* "Command finished rc=%s stdout=%s stderr=%s"
FinishedText(stdout, stderr, mask_secrets) ==
    _mask(stdout, mask_secrets) \o <<" ">> \o _mask(stderr, mask_secrets)

run_command(command, check, mask_secrets, returncode, stdout, stderr) ==
    LET cmd == command
        raises == check /\ returncode # 0
    IN
    /\ shown' = [logged |-> {DisplayCmd(cmd, mask_secrets)}
                            \cup (IF raises THEN {}
                                  ELSE {FinishedText(stdout, stderr, mask_secrets)}),
                 raised |-> IF raises
                            THEN RaisedText(cmd, stdout, stderr, mask_secrets)
                            ELSE <<>>,
                 secrets |-> {mask_secrets[i] : i \in 1..Len(mask_secrets)}]
    /\ last' = [NoCall EXCEPT !.op = "run_command",
                              !.result = IF raises THEN "CommandError" ELSE "ok"]
    /\ UNCHANGED <<host, proc, disk, wait, my_cnf, regFile, dirs, dataInit, cnf, errlog, pwfile, unit, svc, srv,
                   clock, faults, altered, partial>>

\* The commands run with secrets carry them as "-p<secret>" and, for the
\* credential change, also inside the SQL text (instance_manager.py:166-181).
RunCommand ==
    \E temp \in SecretArgs, new \in SecretArgs, both \in BOOLEAN,
       check \in BOOLEAN, returncode \in 0..1, stdout \in OutputArgs :
        /\ ~both => new = temp
        /\ run_command(<< <<"m">>, <<"-", "p">> \o temp >>
                      \o (IF both THEN << new >> ELSE <<>>),
                    check,
                    IF both THEN <<temp, new>> ELSE <<temp>>,
                    returncode, stdout, <<>>)

\* ------------------------------------------------------------- create, statement by statement
\* Invocations of create_instance for one instance name, side by side. A
\* step is one statement of the code, or one system call of a statement
\* that makes several; an external command is a step when it starts and a
\* step when it ends where other invocations can see it half done.
RacePorts == {DefaultPort, 13306}

\* The characters of a record file whose number depends on the record: the
\* port line and root_password_set, the last line of the file (to_dict keeps
\* the field order and safe_dump is called with sort_keys=False). The other
\* lines have the same length in the records of two creates of one name.
Doc(port, flag) ==
    str(port) \o <<"\n">>
    \o (IF flag THEN <<"t", "r", "u", "e">> ELSE <<"f", "a", "l", "s", "e">>)
    \o <<"\n">>

\* write(2) at offset 0 of a file that holds `text`: the bytes past the
\* end of what is written stay.
Overwrite(text, new) == new \o SubSeq(text, Len(new) + 1, Len(text))

Blank(text) == \A i \in DOMAIN text : text[i] = "\n"

\* registry.load of the file: yaml.safe_load(text) or {} and from_dict. An
\* empty text gives {} and a KeyError; a document followed by blank lines
\* is that document; anything else after it is a YAML error.
LoadText(text) ==
    LET docs == {d \in [port : RacePorts, flag : BOOLEAN] :
                    LET t == Doc(d.port, d.flag) IN
                    /\ Len(t) <= Len(text)
                    /\ SubSeq(text, 1, Len(t)) = t
                    /\ Blank(SubSeq(text, Len(t) + 1, Len(text)))}
    IN IF Blank(text) THEN [status |-> "KeyError", port |-> NoPort, flag |-> FALSE]
       ELSE IF docs = {} THEN [status |-> "YAMLError", port |-> NoPort, flag |-> FALSE]
       ELSE LET d == CHOOSE d \in docs : TRUE
            IN [status |-> "ok", port |-> d.port, flag |-> d.flag]

\* The statement of create_instance that follows a statement that returned.
(* variant: the mode of the credential file is not set before bootstrap *)
following_NoChmod(stmt) ==
    CASE stmt = "exists" -> "port" [] stmt = "port" -> "paths"
      [] stmt = "paths" -> "config" [] stmt = "config" -> "init"
      [] stmt = "init" -> "extract" [] stmt = "extract" -> "store"
      [] stmt = "store" -> "boot" [] stmt = "chmod" -> "boot"
      [] stmt = "boot" -> "save"

following(stmt) ==
    CASE stmt = "exists" -> "port" [] stmt = "port" -> "paths"
      [] stmt = "paths" -> "config" [] stmt = "config" -> "init"
      [] stmt = "init" -> "extract" [] stmt = "extract" -> "store"
      [] stmt = "store" -> "chmod" [] stmt = "chmod" -> "boot"
      [] stmt = "boot" -> "save"

\* Where control goes when the try block of _bootstrap_root_password is
\* left, normally or by the exception exc: the finally clause.
(* variant: the shutdown follows the try block instead of being its finally *)
leave_try_NoFinally(exc) == IF exc = "none" THEN "shutdown" ELSE "raised"

leave_try(exc) == "shutdown"

Goto(p, stmt) == [proc EXCEPT ![p].pc = stmt]
Raise(p, exc) == [proc EXCEPT ![p].pc = "raised", ![p].exc = exc]
Did(p, effect, stmt) ==
    [proc EXCEPT ![p].pc = stmt, ![p].did = Append(@, effect)]

\* An invocation starts: mysqlm init-instance --name <name> --port <port>.
Invoke ==
    \E p \in Procs, port \in RacePorts :
        /\ proc[p].pc = "idle"
        /\ proc' = [proc EXCEPT ![p].pc = "exists", ![p].port = port]
        /\ UNCHANGED disk

\* create_instance, lines 237-248: the existence test, the port probe, the
\* directories, my.cnf and the extraction of the temporary password.
create_instance_step(p) ==
    \/ /\ proc[p].pc = "exists"
       /\ proc' = IF disk.file.exists THEN Raise(p, "AlreadyExists")
                  ELSE Goto(p, following("exists"))
       /\ UNCHANGED disk
    \/ /\ proc[p].pc = "port"
       /\ proc' = IF ~_ensure_port_available(
                         proc[p].port, disk.server /\ disk.listen = proc[p].port)
                  THEN Raise(p, "PortUnavailable")
                  ELSE Goto(p, following("port"))
       /\ UNCHANGED disk
    \/ /\ proc[p].pc = "paths"
       /\ disk' = [disk EXCEPT !.dirs = TRUE]
       /\ proc' = Did(p, "dirs", following("paths"))
    \/ /\ proc[p].pc = "config"
       /\ disk' = [disk EXCEPT !.cnf = proc[p].port]
       /\ proc' = Did(p, "config", following("config"))
    \/ /\ proc[p].pc = "extract"
       /\ proc' = [proc EXCEPT ![p].pc = following("extract"),
                               ![p].temp = disk.marker]
       /\ UNCHANGED disk

\* _initialize_datadir: the test of the data directory, then
\* mysqld --initialize, which fills the directory while it runs and has
\* logged the temporary password when it ends.
_initialize_datadir_step(p) ==
    \/ /\ proc[p].pc = "init"
       /\ proc' = IF _initialize_datadir(disk.data) THEN Goto(p, "initialize")
                  ELSE Goto(p, following("init"))
       /\ UNCHANGED disk
    \/ /\ proc[p].pc = "initialize"
       /\ IF disk.data
          THEN \* mysqld --initialize refuses a directory that is not empty
               proc' = Raise(p, "init") /\ UNCHANGED disk
          ELSE proc' = Goto(p, "initializing")
               /\ disk' = [disk EXCEPT !.data = TRUE]
    \/ /\ proc[p].pc = "initializing"
       /\ \E ok \in BOOLEAN :
            IF ok THEN /\ disk' = [disk EXCEPT !.marker = TRUE, !.rootpw = 0]
                       /\ proc' = Did(p, "init", following("init"))
            ELSE proc' = Raise(p, "init") /\ UNCHANGED disk

\* _store_root_password: write_text, which creates the file with the
\* default mode when it is not there, then chmod to owner read and write.
_store_root_password_step(p) ==
    \/ /\ proc[p].pc = "store"
       /\ disk' = [disk EXCEPT !.pw = [by |-> p,
                                        mode |-> IF @.mode = "none" THEN "default"
                                                 ELSE @.mode]]
       /\ proc' = Goto(p, following("store"))
    \/ /\ proc[p].pc = "chmod"
       /\ disk' = [disk EXCEPT !.pw.mode = "owner"]
       /\ proc' = Did(p, "store", following("chmod"))

\* _bootstrap_root_password. The server starts only when none runs on the
\* data directory; the ALTER USER is accepted only while the root password
\* is the temporary one; the shutdown is accepted only when the root
\* password is the one the command presents.
_bootstrap_root_password_step(p) ==
    \/ /\ proc[p].pc = "boot" /\ ~BootstrapRuns(IF proc[p].temp THEN "tmpA" ELSE NoToken)
       /\ proc' = Goto(p, following("boot"))
       /\ UNCHANGED disk
    \/ /\ proc[p].pc = "boot" /\ BootstrapRuns(IF proc[p].temp THEN "tmpA" ELSE NoToken)
       /\ \E ok \in BOOLEAN :
            /\ ok => ~disk.server
            /\ IF ok
               THEN /\ disk' = [disk EXCEPT !.server = TRUE, !.listen = disk.cnf]
                    /\ proc' = [proc EXCEPT ![p].pc = "wait",
                                            ![p].did = Append(@, "mysqld"),
                                            ![p].pwAtStart = disk.pw.mode]
               ELSE proc' = Raise(p, "mysqld") /\ UNCHANGED disk
    \/ /\ proc[p].pc = "wait"
       /\ \E seen \in BOOLEAN :
            /\ seen => disk.server
            /\ proc' = IF seen THEN Goto(p, "alter")
                       ELSE [proc EXCEPT ![p].pc = leave_try("socket"),
                                         ![p].exc = "socket"]
       /\ UNCHANGED disk
    \/ /\ proc[p].pc = "alter"
       /\ \E ok \in BOOLEAN :
            /\ ok => disk.server /\ disk.rootpw = 0
            /\ IF ok
               THEN /\ disk' = [disk EXCEPT !.rootpw = p]
                    /\ proc' = [proc EXCEPT ![p].pc = leave_try("none"),
                                            ![p].flag = TRUE,
                                            ![p].did = Append(@, "alter")]
               ELSE /\ proc' = [proc EXCEPT ![p].pc = leave_try("alter"),
                                            ![p].exc = "alter"]
                    /\ UNCHANGED disk
    \/ /\ proc[p].pc = "shutdown"
       /\ \E ok \in BOOLEAN :
            /\ ok => disk.server /\ disk.rootpw = p
            /\ disk' = [disk EXCEPT !.server = IF ok THEN FALSE ELSE @]
       /\ proc' = [proc EXCEPT ![p].pc = "waitdown",
                               ![p].did = Append(@, "shutdown"),
                               ![p].cred = "new"]
    \/ /\ proc[p].pc = "waitdown"
       /\ proc' = [proc EXCEPT ![p].pc = IF proc[p].exc = "none"
                                         THEN following("boot") ELSE "raised",
                               ![p].warned = disk.server]
       /\ UNCHANGED disk

\* registry.save: write_text opens the file, which empties it, and writes
\* the document from the start of the file.
save_step(p) ==
    \/ /\ proc[p].pc = "save"
       /\ disk' = [disk EXCEPT !.file = [exists |-> TRUE, text |-> <<>>]]
       /\ proc' = Goto(p, "write")
    \/ /\ proc[p].pc = "write"
       /\ disk' = [disk EXCEPT
                     !.file.text = Overwrite(@, Doc(proc[p].port, proc[p].flag)),
                     !.order = Append(@, p)]
       /\ proc' = Did(p, "save", "done")

\* A step of an invocation leaves the rest of the host as it is.
StepFrame ==
    /\ last' = [NoCall EXCEPT !.op = "step"]
    /\ UNCHANGED <<host, my_cnf, wait, regFile, dirs, dataInit, cnf, errlog,
                   pwfile, unit, svc, srv, clock, faults, altered, partial,
                   shown>>

InvokeStep == Invoke /\ StepFrame
CreateStep == (\E p \in Procs : create_instance_step(p)) /\ StepFrame
InitializeStep == (\E p \in Procs : _initialize_datadir_step(p)) /\ StepFrame
StoreStep == (\E p \in Procs : _store_root_password_step(p)) /\ StepFrame
BootstrapStep == (\E p \in Procs : _bootstrap_root_password_step(p)) /\ StepFrame
SaveStep == (\E p \in Procs : save_step(p)) /\ StepFrame

\* ------------------------------------------------------------- wait_for_socket
\* One call at a time. Time is counted in seconds from the call; it passes
\* while the loop sleeps: time.sleep(1) lasts one second or more. The
\* socket appears and disappears as the server pleases.
(* variant: the loop condition does not look at the deadline *)
before_deadline_Always(now, deadline) == TRUE

\* "while time.time() < deadline"
before_deadline(now, deadline) == now < deadline

WaitFrame ==
    UNCHANGED <<regFile, dirs, dataInit, cnf, errlog, pwfile, unit, svc, srv,
                clock, faults, altered, partial, last, shown, host, my_cnf,
                proc, disk>>

Waiting == wait.pc \in {"while", "poll", "sleep"}

\* wait_for_socket(path, timeout, expect_exists) is called: line 118.
WaitCall ==
    \E timeout \in 1..MaxTimeout, expect_exists \in BOOLEAN, socket \in BOOLEAN :
        /\ ~Waiting
        /\ wait' = [pc |-> "while", expect_exists |-> expect_exists,
                    timeout |-> timeout, now |-> 0, deadline |-> 0 + timeout,
                    socket |-> socket, exists |-> FALSE, polls |-> 0]
        /\ WaitFrame

\* line 119, and lines 126-127 when the loop ends.
WaitWhile ==
    /\ wait.pc = "while"
    /\ wait' = [wait EXCEPT !.pc = IF before_deadline(wait.now, wait.deadline)
                                   THEN "poll" ELSE "TimeoutError"]
    /\ WaitFrame

\* lines 120-124
WaitPoll ==
    /\ wait.pc = "poll"
    /\ LET exists_ == wait.socket IN
       wait' = [wait EXCEPT
                  !.exists = exists_,
                  !.polls = @ + 1,
                  !.pc = IF (exists_ /\ wait.expect_exists)
                            \/ (~exists_ /\ ~wait.expect_exists)
                         THEN "returned" ELSE "sleep"]
    /\ WaitFrame

\* line 125
WaitSleep ==
    \E d \in {1, 2} :
        /\ wait.pc = "sleep"
        /\ wait.now + d <= MaxTimeout + 2
        /\ wait' = [wait EXCEPT !.now = @ + d, !.pc = "while"]
        /\ WaitFrame

\* The server creates or removes the socket while the caller waits.
SocketChanges ==
    /\ Waiting
    /\ wait' = [wait EXCEPT !.socket = ~@]
    /\ WaitFrame

Next ==
    \/ CreateInstance
    \/ RemoveInstance
    \/ StartInstance
    \/ StopInstance
    \/ RestartInstance
    \/ StatusInstance
    \/ SetParameter
    \/ UpgradeInstance

\* Every lifecycle operation.
Spec == Init /\ [][Next]_vars

\* The operations that write or delete records.
NextRecords ==
    \/ CreateInstance
    \/ RemoveInstance
    \/ SetParameter
    \/ UpgradeInstance

SpecRecords == Init /\ [][NextRecords]_vars

\* The configuration file on its own.
NextConfig ==
    \/ WriteConfig
    \/ SetParameterText

SpecConfig == Init /\ [][NextConfig]_vars

\* Credential extraction on its own, over the logs mysqld can leave.
NextExtract ==
    \/ MysqldLogs
    \/ ExtractTemporaryPassword

SpecExtract == Init /\ [][NextExtract]_vars

\* Backup and restore, next to create and remove.
NextBackup ==
    \/ CreateService
    \/ RemoveInstance
    \/ Backup
    \/ Restore

SpecBackup == Init /\ [][NextBackup]_vars

\* Path planning and create, with a name that holds a path separator.
InitNames == InitOver({"db1", "a/b"}) /\ host = RootHost

NextNames ==
    \/ CreatePorts
    \/ GeneratePaths

SpecNames == InitNames /\ [][NextNames]_vars

\* Every operation on an instance that exists: create without failures,
\* then the service commands, set-parameter, backup, restore and upgrade.
NextOps ==
    \/ CreateService
    \/ StartInstance
    \/ StopInstance
    \/ RestartInstance
    \/ StatusInstance
    \/ SetParameter
    \/ Backup
    \/ Restore
    \/ UpgradeInstance

SpecOps == Init /\ [][NextOps]_vars

\* Create, remove and the four service operations.
NextLifecycle ==
    \/ CreateService
    \/ RemoveInstance
    \/ StartInstance
    \/ StopInstance
    \/ RestartInstance
    \/ StatusInstance

SpecLifecycle == Init /\ [][NextLifecycle]_vars

\* A host whose registry holds a record file without the backup_dir key,
\* which from_dict reads with the default, for an instance that is on disk.
LegacyRecord(name) ==
    LET d == safe_dump(to_dict(NewInstance(name, DefaultPort,
                                           _generate_paths(name), "8.0", 0)))
    IN YamlFile([k \in Fields \ {"backup_dir"} |-> d[k]])

InitLegacy ==
    LET old == "db1" IN
    /\ regFile = [n \in Names |-> IF n = old THEN LegacyRecord(n) ELSE AbsentFile]
    /\ dirs = [n \in Names |-> IF n = old THEN DirKeys ELSE {}]
    /\ dataInit = [n \in Names |-> n = old]
    /\ cnf = [n \in Names |->
                IF n = old THEN _render_config(DefaultPort, _generate_paths(n))
                ELSE NoCnf]
    /\ errlog = [n \in Names |->
                   IF n = old THEN [exists |-> TRUE, lines |-> <<PlainLine>>]
                   ELSE NoLog]
    /\ pwfile = [n \in Names |-> n = old]
    /\ unit = [n \in Names |-> FALSE]
    /\ svc = [n \in Names |-> FALSE]
    /\ srv = [n \in Names |-> FALSE]
    /\ clock = 0
    /\ faults = 0
    /\ altered = [n \in Names |-> FALSE]
    /\ partial = [n \in Names |-> FALSE]
    /\ last = NoCall
    /\ shown = NoShown
    /\ my_cnf = NoText
    /\ proc = NoProc
    /\ disk = NoDisk
    /\ wait = NoWait
    /\ host = RootHost

NextLegacy ==
    \/ CreateService
    \/ RemoveInstance

SpecLegacy == InitLegacy /\ [][NextLegacy]_vars

\* wait_for_socket on its own. The scheduler runs the statements of the
\* loop: each of them is taken once it is the next one.
NextWait ==
    \/ WaitCall
    \/ WaitWhile
    \/ WaitPoll
    \/ WaitSleep
    \/ SocketChanges

SpecWait ==
    /\ Init /\ [][NextWait]_vars
    /\ WF_vars(WaitWhile) /\ WF_vars(WaitPoll) /\ WF_vars(WaitSleep)

\* Two invocations of create for one name, statement by statement.
NextSteps ==
    \/ InvokeStep
    \/ CreateStep
    \/ InitializeStep
    \/ StoreStep
    \/ BootstrapStep
    \/ SaveStep

SpecSteps == Init /\ [][NextSteps]_vars

\* Port selection with three instance names.
InitPorts == InitOver(AllNames) /\ host = RootHost

NextPorts == CreatePorts

SpecPorts == InitPorts /\ [][NextPorts]_vars

\* The command runner on its own.
\* Create, remove, start, stop and restart.
NextService ==
    \/ CreateService
    \/ RemoveInstance
    \/ StartInstance
    \/ StopInstance
    \/ RestartInstance

SpecService == Init /\ [][NextService]_vars

InitRegistry == InitOver(RegNames) /\ host = RootHost

\* ------------------------------------------------------------- locations
\* The states of a directory: "absent", or present and "writable" or
\* "readonly" for the process.
DirStates == {"absent", "readonly", "writable"}

\* The hosts a process can start on: /etc exists; a directory under an
\* absent one is absent; a file lies in a present directory; root may write
\* everywhere; nothing is resolved yet.
HostStates ==
    {h \in [root : BOOLEAN, etc : {"readonly", "writable"},
            etcMysqlm : DirStates, instances : DirStates,
            usrLocalEtc : DirStates, usrLocalEtcMysqlm : DirStates,
            etcConfig : BOOLEAN, usrLocalConfig : {FALSE},
            userConfigDir : BOOLEAN, userConfig : BOOLEAN,
            userRegistryDir : BOOLEAN,
            registryDir : {"unset"}, configPath : {"unset"}] :
        /\ h.etcMysqlm = "absent" => h.instances = "absent" /\ ~h.etcConfig
        /\ h.usrLocalEtc = "absent" => h.usrLocalEtcMysqlm = "absent"
        /\ h.userConfig => h.userConfigDir
        /\ h.root => /\ h.etc = "writable"
                     /\ "readonly" \notin {h.etcMysqlm, h.instances,
                                           h.usrLocalEtc, h.usrLocalEtcMysqlm}}

\* INSTANCE_REGISTRY_DIR.mkdir(parents=True, exist_ok=True): an existing
\* directory is accepted whatever its mode; a missing one is created, with
\* its missing parent, when the directory it goes into is writable.
RegistryMkdir(h) ==
    IF h.instances # "absent" THEN [ok |-> TRUE, host |-> h]
    ELSE IF h.etcMysqlm = "absent" THEN
        IF h.etc = "writable"
        THEN [ok |-> TRUE,
              host |-> [h EXCEPT !.etcMysqlm = "writable", !.instances = "writable"]]
        ELSE [ok |-> FALSE, host |-> h]
    ELSE IF h.etcMysqlm = "writable"
        THEN [ok |-> TRUE, host |-> [h EXCEPT !.instances = "writable"]]
    ELSE [ok |-> FALSE, host |-> h]

\* _ensure_directory: explicitOk is whether mkdir of an explicit directory
\* is permitted.
_ensure_directory(h, explicit, explicitOk) ==
    IF explicit THEN
        IF explicitOk
        THEN [status |-> "ok", host |-> [h EXCEPT !.registryDir = "explicit"]]
        ELSE [status |-> "PermissionError", host |-> h]
    ELSE IF RegistryMkdir(h).ok
    THEN [status |-> "ok",
          host |-> [RegistryMkdir(h).host EXCEPT !.registryDir = "system"]]
    ELSE [status |-> "ok",
          host |-> [h EXCEPT !.userRegistryDir = TRUE, !.registryDir = "user"]]

\* ConfigStore._select_path over GLOBAL_CONFIG_PATHS: a path is taken when
\* its parent exists and is writable, or when its parent is missing and the
\* parent's parent exists and is writable.
_select_path(h) ==
    IF (h.etcMysqlm = "writable") \/ (h.etcMysqlm = "absent" /\ h.etc = "writable")
        THEN "etc"
    ELSE IF \/ h.usrLocalEtcMysqlm = "writable"
            \/ (h.usrLocalEtcMysqlm = "absent" /\ h.usrLocalEtc = "writable")
        THEN "usrlocal"
    ELSE "user"

\* candidate.parent.mkdir(parents=True, exist_ok=True)
ConfigMkdir(h, candidate) ==
    IF candidate = "etc" THEN
        IF h.etcMysqlm # "absent" THEN [ok |-> TRUE, host |-> h]
        ELSE IF h.etc = "writable"
            THEN [ok |-> TRUE, host |-> [h EXCEPT !.etcMysqlm = "writable"]]
        ELSE [ok |-> FALSE, host |-> h]
    ELSE IF candidate = "usrlocal" THEN
        IF h.usrLocalEtcMysqlm # "absent" THEN [ok |-> TRUE, host |-> h]
        ELSE IF h.usrLocalEtc = "writable"
            THEN [ok |-> TRUE, host |-> [h EXCEPT !.usrLocalEtcMysqlm = "writable"]]
        ELSE [ok |-> FALSE, host |-> h]
    ELSE [ok |-> TRUE, host |-> [h EXCEPT !.userConfigDir = TRUE]]

_ensure_path(h, candidate, explicit, explicitOk) ==
    IF explicit THEN
        IF explicitOk THEN [status |-> "ok", host |-> h, path |-> "explicit"]
        ELSE [status |-> "PermissionError", host |-> h, path |-> "unset"]
    ELSE IF ConfigMkdir(h, candidate).ok
    THEN [status |-> "ok", host |-> ConfigMkdir(h, candidate).host,
          path |-> candidate]
    ELSE [status |-> "ok", host |-> [h EXCEPT !.userConfigDir = TRUE],
          path |-> "user"]

\* "if not self.path.exists(): self.save({})"
ConfigSaved(h, path) ==
    IF path = "etc" THEN [h EXCEPT !.etcConfig = TRUE]
    ELSE IF path = "usrlocal" THEN [h EXCEPT !.usrLocalConfig = TRUE]
    ELSE IF path = "user" THEN [h EXCEPT !.userConfig = TRUE]
    ELSE h

\* ConfigStore.__init__
ConfigStoreInit(h, explicit, explicitOk) ==
    LET got == _ensure_path(h, _select_path(h), explicit, explicitOk) IN
    IF got.status # "ok" THEN [status |-> got.status, host |-> h]
    ELSE [status |-> "ok",
          host |-> [ConfigSaved(got.host, got.path) EXCEPT !.configPath = got.path]]

InstanceRegistry(explicit, explicitOk) ==
    LET got == _ensure_directory(host, explicit, explicitOk) IN
    /\ host' = got.host
    /\ last' = [NoCall EXCEPT !.op = "InstanceRegistry", !.result = got.status,
                              !.explicit = explicit]
    /\ UNCHANGED <<my_cnf, proc, disk, wait, regFile, dirs, dataInit, cnf, errlog, pwfile, unit, svc, srv,
                   clock, faults, altered, partial, shown>>

NewInstanceRegistry ==
    \E explicit \in BOOLEAN, explicitOk \in BOOLEAN :
        /\ ~explicit => explicitOk
        /\ InstanceRegistry(explicit, explicitOk)

ConfigStore(explicit, explicitOk) ==
    LET got == ConfigStoreInit(host, explicit, explicitOk) IN
    /\ host' = got.host
    /\ last' = [NoCall EXCEPT !.op = "ConfigStore", !.result = got.status,
                              !.explicit = explicit]
    /\ UNCHANGED <<my_cnf, proc, disk, wait, regFile, dirs, dataInit, cnf, errlog, pwfile, unit, svc, srv,
                   clock, faults, altered, partial, shown>>

NewConfigStore ==
    \E explicit \in BOOLEAN, explicitOk \in BOOLEAN :
        /\ ~explicit => explicitOk
        /\ ConfigStore(explicit, explicitOk)

\* The commands that call ensure_root() first.
RootCommands ==
    {"install", "init-instance", "start", "stop", "restart", "status",
     "remove-instance", "set-parameter", "backup", "restore", "upgrade"}

ensure_root(h) == IF h.root THEN "ok" ELSE "PermissionError"

\* One invocation of a command without root privileges: the callback builds
\* AppState (ConfigStore(), then InstanceRegistry()), then the command
\* calls ensure_root(), which raises.
main(command) ==
    LET config == ConfigStoreInit(host, FALSE, TRUE)
        registry == _ensure_directory(config.host, FALSE, TRUE)
    IN
    /\ ensure_root(host) # "ok"
    /\ host' = registry.host
    /\ last' = [NoCall EXCEPT !.op = "cli", !.name = command,
                              !.result = ensure_root(host)]
    /\ UNCHANGED <<my_cnf, proc, disk, wait, regFile, dirs, dataInit, cnf, errlog, pwfile, unit, svc, srv,
                   clock, faults, altered, partial, shown>>

Unprivileged == \E command \in RootCommands : main(command)

InitHost == InitOver(Names) /\ host \in HostStates

NextHost ==
    \/ NewInstanceRegistry
    \/ NewConfigStore
    \/ Unprivileged

SpecHost == InitHost /\ [][NextHost]_vars

NextRegistry ==
    \/ RegistrySave
    \/ RegistryLoad
    \/ RegistryDelete
    \/ RegistryList

SpecRegistry == InitRegistry /\ [][NextRegistry]_vars

NextRun == RunCommand

SpecRun == Init /\ [][NextRun]_vars

\* ============================================================= properties
RecordOf(n) == regFile[n].data
HasRecord(n) == regFile[n].kind = "yaml"
CreateDone == last.op = "create" /\ last.result = "ok"

\* C1: no two records of the registry have the same port (an explicit port
\* that an existing record claims is refused, listening or not).
C1_UniquePorts ==
    \A a \in Universe, b \in Universe :
        a # b /\ HasRecord(a) /\ HasRecord(b) => RecordOf(a).port # RecordOf(b).port

\* C2: a create on a name whose earlier create failed after the directories
\* were created fails with AlreadyExists.
C2_RetryFailsFast ==
    [][(last'.op = "create" /\ partial[last'.name])
         => last'.result = "AlreadyExists"]_vars

\* C3: when the temporary credential was extracted and the credential change
\* failed, create still saves the record, with root_password_set false.
C3_AlterFailureStillSaves ==
    (last.op = "create" /\ last.extract = "found" /\ last.alterIssued /\ ~last.alterOk)
        => HasRecord(last.name) /\ ~RecordOf(last.name).root_password_set

\* C4: a persisted record has root_password_set true only if the credential
\* change of that instance completed successfully.
C4_AppliedOnlyAfterAlter ==
    \A n \in Universe : HasRecord(n) /\ RecordOf(n).root_password_set => altered[n]

\* C4 witness: an upgrade has rewritten the record of an instance whose
\* credential change had succeeded, and the flag is still set.
C4_Witness ==
    /\ last.op = "upgrade" /\ last.result = "ok"
    /\ HasRecord(last.name) /\ RecordOf(last.name).root_password_set
    /\ altered[last.name]

\* C5 (as claimed): whenever create returns successfully the unmanaged server
\* is no longer running and the instance is not under the service manager.
C5_CreateLeavesStopped ==
    CreateDone => ~srv[last.name] /\ ~svc[last.name] /\ ~unit[last.name]

\* C5 (amended): whenever create returns successfully no unit file is
\* installed for the instance; if bootstrap started the unmanaged server, the
\* shutdown was issued, and the server is down unless the wait for the socket
\* to disappear timed out and the warning was logged.
C5_CreateStopsOrWarns ==
    CreateDone =>
        /\ ~unit[last.name]
        /\ last.started => last.shutdownIssued /\ (srv[last.name] => last.warned)

\* C5 witness: create returned successfully after a bootstrap whose server
\* was still up when the wait ended.
C5_Witness ==
    CreateDone /\ last.started /\ last.alterOk /\ srv[last.name] /\ last.warned

\* C6: create on a registered name fails with AlreadyExists and changes
\* neither the record (its last_modified included) nor any file or directory.
C6_DuplicateCreateNoMutation ==
    [][(last'.op = "create" /\ regFile[last'.name].kind = "yaml")
         => last'.result = "AlreadyExists" /\ UNCHANGED others]_vars

\* C6 witness: a create has just been refused on a registered name.
C6_Witness ==
    last.op = "create" /\ last.result = "AlreadyExists" /\ HasRecord(last.name)

\* C7: create without a port saves the lowest port >= 3306 that no record
\* claimed before the call, and writes that port to the config file.
C7_AutoPortLowestFree ==
    [][(last'.op = "create" /\ last'.result = "ok" /\ last'.portArg = NoPort)
         => LET n == last'.name
                p == regFile'[n].data.port
                claimed == {regFile[m].data.port :
                              m \in {x \in Universe : regFile[x].kind = "yaml"}}
            IN /\ regFile'[n].kind = "yaml"
               /\ p >= DefaultPort
               /\ p \notin claimed
               /\ \A q \in DefaultPort..(p - 1) : q \in claimed
               /\ cnf'[n].exists /\ cnf'[n].port = p /\ cnf'[n].client_port = p]_vars

\* C7 witness: with 3306 and 3307 claimed, a create without a port got 3308.
C7_Witness ==
    /\ CreateDone /\ last.portArg = NoPort
    /\ HasRecord(last.name) /\ RecordOf(last.name).port = DefaultPort + 2
    /\ \E a \in Universe, b \in Universe :
          /\ HasRecord(a) /\ RecordOf(a).port = DefaultPort
          /\ HasRecord(b) /\ RecordOf(b).port = DefaultPort + 1

\* C8: when the log holds no temporary-password line, create starts no
\* server, issues no credential change and no shutdown, and (unless writing
\* the credential file fails or the process dies) completes and saves the
\* record with root_password_set false.
C8_NoMarkerSkipsBootstrap ==
    (last.op = "create" /\ last.extract = "none") =>
        /\ ~last.started /\ ~last.alterIssued /\ ~last.shutdownIssued
        /\ last.result \in {"ok", "store", "crash"}
        /\ last.result = "ok" =>
              HasRecord(last.name) /\ ~RecordOf(last.name).root_password_set

\* C8 witness: a create whose log had no marker line completed.
C8_Witness ==
    /\ CreateDone /\ last.extract = "none"
    /\ HasRecord(last.name) /\ ~RecordOf(last.name).root_password_set

\* C9: no text that run_command logs or raises contains one of the secrets.
Contains(text, part) ==
    \E i \in 1..(Len(text) - Len(part) + 1) :
        SubSeq(text, i, i + Len(part) - 1) = part

C9_NoSecretShown ==
    \A secret \in shown.secrets :
        /\ \A text \in shown.logged : ~Contains(text, secret)
        /\ ~Contains(shown.raised, secret)

\* C10: after the process died inside a save, load returns a complete
\* record or NotFound, never a partial or empty one.
C10_SaveAtomic ==
    last.result = "crash" => load(last.name).status \in {"ok", "NotFound"}

\* C11: after save(record) has completed, load(record.name) returns a record
\* equal in every field to the one saved, the last_modified that save set and
\* an absent mysql_version included.
C11_SaveThenLoad ==
    (last.op = "save" /\ last.result = "ok")
        => load(last.name) = [status |-> "ok", rec |-> last.arg[1]]

\* C11 witness: a record without mysql_version was saved and reads back with
\* the last_modified of the save.
C11_Witness ==
    /\ last.op = "save" /\ last.result = "ok"
    /\ last.arg[1].mysql_version = NoVersion
    /\ load(last.name).status = "ok"
    /\ load(last.name).rec.last_modified = clock

\* C12: delete never fails, whether a record exists or not; after it the
\* name is not registered and load fails with NotFound.
C12_DeleteIdempotent ==
    last.op = "delete"
        => /\ last.result = "ok"
           /\ ~exists(last.name)
           /\ load(last.name).status = "NotFound"

\* C12 witness: delete has completed on a name that had no record.
C12_Witness ==
    last.op = "delete" /\ ~last.had /\ last.result = "ok"

\* C13: list returns exactly the records of the files that parse, each once,
\* and logs one error for each file that does not.
C13_ListSkipsUnparsable ==
    last.op = "list" =>
        LET good == {n \in Universe : regFile[n].kind = "yaml"}
            bad == {n \in Universe : regFile[n].kind = "torn"}
        IN /\ {last.value[i] : i \in DOMAIN last.value}
                = {from_dict(safe_load(regFile[n].data)) : n \in good}
           /\ Len(last.value) = Cardinality(good)
           /\ {last.errors[i] : i \in DOMAIN last.errors} = bad
           /\ Len(last.errors) = Cardinality(bad)

\* C13 witness: a listing over one unparsable file and two valid ones
\* returned the two records.
C13_Witness ==
    last.op = "list" /\ Len(last.value) = 2 /\ Len(last.errors) = 1

\* C14: the sequence list returns is in ascending order of the name field.
C14_ListSortedByName ==
    last.op = "list" =>
        \A i \in DOMAIN last.value, j \in DOMAIN last.value :
            i < j => StrLess(Chars(last.value[i].name), Chars(last.value[j].name))

\* C16: after remove with keep_data has completed, the record of the name is
\* gone and the data directory, if it was there, is still there with its
\* contents.
C16_KeepDataKeepsDatadir ==
    [][(last'.op = "remove" /\ last'.result = "ok" /\ last'.keep)
         => LET n == last'.name
            IN /\ regFile'[n].kind = "absent"
               /\ "datadir" \in dirs[n] => "datadir" \in dirs'[n]
               /\ dataInit'[n] = dataInit[n]]_vars

\* C16 witness: a remove with keep_data has completed and the initialized
\* data directory of the unregistered name is on disk.
C16_Witness ==
    /\ last.op = "remove" /\ last.result = "ok" /\ last.keep
    /\ regFile[last.name].kind = "absent"
    /\ "datadir" \in dirs[last.name] /\ dataInit[last.name]

\* C17: a completed remove deletes exactly the config directory when
\* keep_data is true and the data, log, runtime, backup and config
\* directories when it is false.
C17_RemoveDeletesExactly ==
    [][(last'.op = "remove" /\ last'.result = "ok")
         => LET n == last'.name
            IN dirs[n] \ dirs'[n] =
                 dirs[n] \cap (IF last'.keep THEN {"conf_dir"} ELSE DirKeys)]_vars

\* C18: a remove that found its record deletes the record also when
\* stopping the service or one of the directory deletions failed.
C18_RemoveBestEffort ==
    (last.op = "remove" /\ last.result \in {"ok", "rmtree"})
        => regFile[last.name].kind = "absent"

\* C19: start writes the unit file exactly when none exists for the instance
\* (and the unit could be rendered), never when one exists, and issues the
\* service manager's start only with the unit file in place.
C19_StartWritesUnitOnce ==
    [][(last'.op = "start" /\ last'.result \notin {"NotFound", "KeyError"})
         => LET n == last'.name
            IN /\ last'.wroteUnit => ~unit[n]
               /\ (~unit[n] /\ last'.result # "binary") => last'.wroteUnit
               /\ last'.startIssued => unit'[n]]_vars

\* C19 witness: a start on an instance whose unit file existed issued the
\* service manager's start without writing the unit.
C19_Witness ==
    /\ last.op = "start" /\ last.result = "ok" /\ last.had
    /\ ~last.wroteUnit /\ last.startIssued /\ unit[last.name]

\* C15: when the system-wide location is unwritable, constructing
\* InstanceRegistry (or ConfigStore) without an explicit location resolves
\* to the per-user location and creates it; an explicit location is never
\* replaced by the per-user one; no other step changes what was resolved.
RegistryUnwritable(h) ==
    \/ h.instances = "readonly"
    \/ h.instances = "absent" /\ ~RegistryMkdir(h).ok

ConfigUnwritable(h) ==
    /\ h.etcMysqlm = "readonly" \/ (h.etcMysqlm = "absent" /\ h.etc = "readonly")
    /\ h.usrLocalEtcMysqlm = "readonly"
         \/ (h.usrLocalEtcMysqlm = "absent" /\ h.usrLocalEtc # "writable")

C15_FallbackWhenUnwritable ==
    [][/\ last'.op = "InstanceRegistry" =>
            /\ last'.explicit => host'.registryDir # "user"
            /\ (~last'.explicit /\ RegistryUnwritable(host))
                  => host'.registryDir = "user" /\ host'.userRegistryDir
       /\ last'.op = "ConfigStore" =>
            /\ last'.explicit => host'.configPath # "user"
            /\ (~last'.explicit /\ ConfigUnwritable(host))
                  => host'.configPath = "user" /\ host'.userConfigDir
       /\ last'.op \notin {"InstanceRegistry", "ConfigStore", "cli"} =>
            /\ host'.registryDir = host.registryDir
            /\ host'.configPath = host.configPath]_vars

\* C20: a command that needs root, run without it, fails with a permission
\* error and the invocation has created or changed no file, directory,
\* record or service.
HostFiles(h) ==
    <<h.etcMysqlm, h.instances, h.usrLocalEtc, h.usrLocalEtcMysqlm,
      h.etcConfig, h.usrLocalConfig, h.userConfigDir, h.userConfig,
      h.userRegistryDir>>

C20_RootCheckBeforeMutation ==
    [][last'.op = "cli" =>
          /\ last'.result = "PermissionError"
          /\ HostFiles(host') = HostFiles(host)
          /\ UNCHANGED <<my_cnf, proc, disk, wait, regFile, dirs, dataInit, cnf, errlog, pwfile, unit,
                         svc, srv>>]_vars

\* ------------------------------------------------------------- C21, C22
\* The option lines of a text, each with the section it stands in.
SectionOf(lines, i) ==
    LET heads == {j \in 1..i : lines[j].kind = "section"}
    IN IF heads = {} THEN ""
       ELSE lines[CHOOSE j \in heads : \A k \in heads : k <= j].key

Settings(lines) ==
    {[section |-> SectionOf(lines, i), key |-> lines[i].key,
      value |-> lines[i].value] :
        i \in {j \in DOMAIN lines : lines[j].kind = "option"}}

TypedParams == {"max_connections", "innodb_buffer_pool_size", "slow_query_log"}
ValidValues(parameter) ==
    CASE parameter = "max_connections" -> {<<"5", "0", "0">>}
      [] parameter = "innodb_buffer_pool_size" -> {<<"2", "G">>}
      [] parameter = "slow_query_log" -> {<<"o", "f", "f">>}
InvalidValues(parameter) ==
    CASE parameter = "max_connections" ->
            {<<"a", "b", "c">>, <<"2", "G">>, <<"o", "f", "f">>}
      [] parameter = "innodb_buffer_pool_size" ->
            {<<"a", "b", "c">>, <<"o", "f", "f">>}
      [] parameter = "slow_query_log" ->
            {<<"a", "b", "c">>, <<"2", "G">>, <<"5", "0", "0">>}

\* C21: set-parameter with an invalid value for a typed parameter fails with
\* InvalidParameterValue and leaves the file as it was; with a valid value it
\* succeeds, and reading the file afterwards gives the new value for the
\* parameter.
C21_InvalidRejectedValidApplied ==
    [][last'.op = "set_parameter" /\ last'.arg[1] \in TypedParams =>
        /\ last'.value \in InvalidValues(last'.arg[1]) =>
              last'.result = "InvalidParameterValue" /\ my_cnf' = my_cnf
        /\ last'.value \in ValidValues(last'.arg[1]) =>
              /\ last'.result = "ok"
              /\ [key |-> last'.arg[1], value |-> last'.value]
                    \in {show_parameters(my_cnf')[i] :
                            i \in DOMAIN show_parameters(my_cnf')}
              /\ \A o \in {show_parameters(my_cnf')[i] :
                            i \in DOMAIN show_parameters(my_cnf')} :
                    o.key = last'.arg[1] => o.value = last'.value]_vars

\* max_connections=abc has been rejected on a file in which an earlier
\* max_connections=500 stands.
C21_Witness ==
    /\ last.op = "set_parameter"
    /\ last.arg = <<"max_connections">>
    /\ last.value = <<"a", "b", "c">>
    /\ last.result = "InvalidParameterValue"
    /\ [section |-> "mysqld", key |-> "max_connections",
        value |-> <<"5", "0", "0">>] \in Settings(my_cnf.lines)

\* C22: a set-parameter that succeeds keeps every other option that was set
\* in the file, with its value, in the server section and in the client
\* section, whether the file is as rendered or has been rewritten before.
C22_RewriteKeepsOtherKeys ==
    [][last'.op = "set_parameter" /\ last'.result = "ok" =>
        \A o \in Settings(my_cnf.lines) :
            (o.section = "mysqld" /\ o.key = last'.arg[1])
            \/ o \in Settings(my_cnf'.lines)]_vars

\* A rendered file after two set-parameter calls: it has the new key, the
\* changed key and the options of both rendered sections.
C22_Witness ==
    /\ last.op = "set_parameter"
    /\ last.result = "ok"
    /\ \E o \in Settings(my_cnf.lines) :
          o.section = "mysqld" /\ o.key = "wait_timeout"
    /\ [section |-> "mysqld", key |-> "max_connections",
        value |-> <<"5", "0", "0">>] \in Settings(my_cnf.lines)
    /\ \E o \in Settings(my_cnf.lines) :
          o.section = "mysqld" /\ o.key = "datadir"
    /\ \E o \in Settings(my_cnf.lines) : o.section = "client" /\ o.key = "port"
    /\ \E o \in Settings(my_cnf.lines) : o.section = "client" /\ o.key = "socket"

\* ------------------------------------------------------------- C23
\* C23: the extraction returns the last word of the last line of the log that
\* contains the marker phrase, and nothing when the log is absent or has no
\* such line.
C23_LastMarkerLineWins ==
    last.op = "_extract_temporary_password" =>
        LET log == errlog[last.name]
            marked == {i \in DOMAIN log.lines :
                          \E j \in 1..(Len(log.lines[i]) - 1) :
                              /\ log.lines[i][j] \in {"temporary", "Temporary"}
                              /\ log.lines[i][j + 1] = "password"}
        IN IF ~log.exists \/ marked = {} THEN last.result = NoToken
           ELSE LET i == CHOOSE i \in marked : \A k \in marked : k <= i
                IN last.result = log.lines[i][Len(log.lines[i])]

\* A log with two marker lines that end in different words, and the word of
\* the later line returned.
C23_Witness ==
    /\ last.op = "_extract_temporary_password"
    /\ errlog[last.name].lines = <<MarkerLine, OtherMarkerLine>>
    /\ last.result = "tmpB"

\* ------------------------------------------------------------- C24
\* C24: a backup of an instance whose password file does not exist fails with
\* CredentialUnavailable and has neither made the destination directory nor
\* run the dump; a restore from an archive that does not exist fails with
\* ArchiveNotFound and has neither read the password nor run the restore.
C24_FailsBeforeSideEffects ==
    [][/\ last'.op = "backup" /\ HasRecord(last'.name) /\ ~pwfile[last'.name] =>
            /\ last'.result = "CredentialUnavailable"
            /\ ~last'.madeDir /\ ~last'.ran
            /\ dirs' = dirs
       /\ last'.op = "restore" /\ HasRecord(last'.name) /\ ~last'.had =>
            /\ last'.result = "ArchiveNotFound"
            /\ ~last'.readSecret /\ ~last'.ran]_vars

\* A backup has been refused for an instance that has a record and no
\* password file.
C24_Witness ==
    /\ last.op = "backup"
    /\ HasRecord(last.name)
    /\ ~pwfile[last.name]
    /\ last.result = "CredentialUnavailable"

\* ------------------------------------------------------------- C25
\* C25: an upgrade of an instance whose password file is absent, or whose
\* password was never applied, does not end in an error of the step that
\* needs the password: that step is skipped or its failure is tolerated.
C25_UpgradeToleratesMissingCredential ==
    [][(/\ last'.op = "upgrade"
        /\ HasRecord(last'.name)
        /\ ~pwfile[last'.name] \/ ~RecordOf(last'.name).root_password_set)
         => last'.result \notin {"FileNotFound", "mysql_upgrade"}]_vars

\* ------------------------------------------------------------- C26, C27
ValidName(name) == \A i \in DOMAIN Chars(name) : Chars(name)[i] # "/"

\* C26: a create with a name that holds a path separator is rejected with
\* InvalidName, with no directory made and no record written.
C26_UnsafeNameRejected ==
    (last.op = "create" /\ ~ValidName(last.name)) =>
        /\ last.result = "InvalidName"
        /\ dirs[last.name] = {}
        /\ ~HasRecord(last.name)

\* C27: for a valid name the ten planned paths are pairwise distinct, and
\* planning the name again gives the paths that were planned, and stored in
\* the record, when the instance was created.
C27_PathsDistinctAndStable ==
    (last.op = "_generate_paths" /\ ValidName(last.name)) =>
        /\ Cardinality(DOMAIN last.paths) = 10
        /\ \A j, k \in DOMAIN last.paths :
              j # k => last.paths[j] # last.paths[k]
        /\ HasRecord(last.name) =>
              \A k \in DOMAIN last.paths \ {"conf_dir"} :
                  safe_load(RecordOf(last.name))[k] = last.paths[k]

\* Paths planned for an instance that was created before.
C27_Witness ==
    /\ last.op = "_generate_paths"
    /\ ValidName(last.name)
    /\ HasRecord(last.name)

\* ------------------------------------------------------------- C28
\* C28: when the data directory is not empty, the initialization step of a
\* create does nothing: mysqld --initialize is not run, the step raises no
\* error, and the data directory and its error log are as they were.
C28_InitializeSkipsNonEmpty ==
    [][(/\ last'.op = "create"
        /\ last'.result \notin {"AlreadyExists", "PortUnavailable", "config"}
        /\ dataInit[last'.name])
         => /\ ~last'.ran
            /\ last'.result # "init"
            /\ dataInit'[last'.name]
            /\ errlog'[last'.name].lines = errlog[last'.name].lines]_vars

\* A create that completed without running mysqld --initialize, on the
\* data directory a remove with keep_data left behind.
C28_Witness ==
    /\ last.op = "create"
    /\ last.result = "ok"
    /\ ~last.ran
    /\ dataInit[last.name]

\* ------------------------------------------------------------- C29
\* C29: every save that leaves a record sets its last_modified to the time of
\* the save; against the record it replaces, last_modified has not moved
\* backwards and created_at is the same; a new record is not modified
\* before it was created.
C29_LastModifiedFollowsSaves ==
    [][(clock' # clock /\ regFile'[last'.name].kind = "yaml") =>
        LET n == last'.name
            new == safe_load(regFile'[n].data)
            old == safe_load(regFile[n].data)
        IN /\ clock' > clock
           /\ new.last_modified = clock'
           /\ new.created_at <= new.last_modified
           /\ regFile[n].kind = "yaml" =>
                /\ new.last_modified >= old.last_modified
                /\ new.created_at = old.created_at
           /\ \A m \in Universe \ {n} : regFile'[m] = regFile[m]]_vars

\* A record that was saved by create, by set-parameter and by upgrade.
C29_Witness ==
    /\ last.op = "upgrade"
    /\ last.result = "ok"
    /\ HasRecord(last.name)
    /\ safe_load(RecordOf(last.name)).last_modified = clock
    /\ safe_load(RecordOf(last.name)).last_modified
          >= safe_load(RecordOf(last.name)).created_at + 3

C31_LastWriterWins ==
    /\ \A p \in Procs :
          proc[p].did # <<>> => proc[p].exc # "AlreadyExists"
    /\ (\A p \in Procs : proc[p].pc = "done") =>
          LET w == disk.order[Len(disk.order)]
          IN LoadText(disk.file.text) =
                [status |-> "ok", port |-> proc[w].port, flag |-> proc[w].flag]

Has(p, effect) == \E i \in DOMAIN proc[p].did : proc[p].did[i] = effect
LeftBootstrap(p) == proc[p].pc \in {"save", "write", "done", "raised"}

\* C32: once the command that starts the unmanaged server has returned, an
\* invocation does not leave the credential bootstrap, by return or by an
\* exception (socket-wait timeout, failed credential change), before it
\* has issued a shutdown with the new credential.
C32_ShutdownOnEveryPath ==
    \A p \in Procs :
        Has(p, "mysqld") /\ LeftBootstrap(p)
            => Has(p, "shutdown") /\ proc[p].cred = "new"

\* C32 witness: one invocation completed after a successful credential
\* change and its shutdown; the other left the bootstrap with the failure of
\* its credential change, after its shutdown.
C32_Witness ==
    \E p \in Procs, q \in Procs :
        /\ proc[p].pc = "done" /\ Has(p, "alter") /\ Has(p, "shutdown")
        /\ proc[q].pc = "raised" /\ proc[q].exc = "alter"
        /\ Has(q, "mysqld") /\ Has(q, "shutdown") /\ proc[q].cred = "new"

Rank(effect) ==
    CASE effect = "dirs" -> 1 [] effect = "config" -> 2 [] effect = "init" -> 3
      [] effect = "store" -> 4 [] effect = "mysqld" -> 5 [] effect = "alter" -> 6
      [] effect = "shutdown" -> 7 [] effect = "save" -> 8

\* C33: the effects of one create come in the order directories, config
\* file, data directory initialization, credential file (owner-only),
\* start of the unmanaged server, record; the record is saved only after
\* the directories, the config file, a non-empty data directory, the
\* credential file and the end of the bootstrap; and the credential file
\* exists with owner-only mode when the server is started.
C33_CreateOrder ==
    \A p \in Procs :
        /\ \A i \in DOMAIN proc[p].did, j \in DOMAIN proc[p].did :
              i < j => Rank(proc[p].did[i]) < Rank(proc[p].did[j])
        /\ Has(p, "mysqld") => Has(p, "store") /\ proc[p].pwAtStart = "owner"
        /\ proc[p].pc \in {"write", "done"} =>
              /\ Has(p, "dirs") /\ Has(p, "config") /\ Has(p, "store")
              /\ disk.dirs /\ disk.cnf # NoPort /\ disk.data
              /\ disk.pw.mode = "owner"
              /\ Has(p, "mysqld") => Has(p, "shutdown")

\* C33 witness: a create that initialized the data directory, changed the
\* credential and saved its record.
C33_Witness ==
    \E p \in Procs :
        /\ proc[p].pc = "done"
        /\ proc[p].did = <<"dirs", "config", "init", "store", "mysqld",
                           "alter", "shutdown", "save">>
        /\ proc[p].pwAtStart = "owner"

\* C34: when the credential change was attempted and the socket did not
\* disappear within the shutdown timeout, create does not fail: the warning
\* is logged and the record is saved with root_password_set equal to
\* whether the credential change succeeded.
C34_ShutdownTimeoutStillSaves ==
    (last.op = "create" /\ last.alterIssued /\ last.warned
       /\ last.result # "crash")
        => /\ last.result = "ok"
           /\ HasRecord(last.name)
           /\ RecordOf(last.name).root_password_set = last.alterOk

\* C35: wait_for_socket always ends. It returns only when its last poll
\* saw the socket in the expected state, and on the first poll that does;
\* it raises TimeoutError only once the timeout has elapsed; it polls at
\* most once per second of the timeout; and a call that waits eventually
\* returns or raises.
C35_WaitSafe ==
    /\ wait.pc = "returned" =>
          wait.exists = wait.expect_exists /\ wait.socket = wait.expect_exists
    /\ wait.pc = "sleep" => wait.exists # wait.expect_exists
    /\ wait.pc = "TimeoutError" => wait.now >= wait.timeout
    /\ wait.polls <= wait.timeout

C35_WaitTerminates ==
    /\ []C35_WaitSafe
    /\ (wait.pc = "while") ~> (wait.pc \in {"returned", "TimeoutError"})

\* C35 witness: a wait for the socket to disappear timed out after two or
\* more polls that saw the socket.
C35_Witness ==
    /\ wait.pc = "TimeoutError" /\ ~wait.expect_exists
    /\ wait.polls >= 2 /\ wait.exists

\* C36: start, stop, restart, status and remove on a name that has no
\* record fail with NotFound, call the service manager not at all and
\* change no file, directory, unit or service.
C36_NotFoundNoEffect ==
    [][(last'.op \in {"start", "stop", "restart", "status", "remove"}
          /\ regFile[last'.name].kind = "absent")
         => /\ last'.result = "NotFound"
            /\ last'.systemctl = <<>>
            /\ UNCHANGED others]_vars

\* C36 witness: a remove was refused with NotFound on a name that has no
\* record but still has its data directory, and that directory is still
\* there.
C36_Witness ==
    /\ last.op = "remove" /\ last.result = "NotFound"
    /\ regFile[last.name].kind = "absent"
    /\ "datadir" \in dirs[last.name]

\* C37: remove deletes the record as its last step. A remove that raises
\* (daemon-reload or a directory deletion failed) leaves the record of the
\* name as it was, so that a retry finds it; a remove that deleted the
\* record has run every deletion step before.
C37_RecordDeletedLast ==
    [][last'.op = "remove" =>
         /\ last'.result \in {"reload", "rmtree"} =>
               regFile'[last'.name] = regFile[last'.name]
               /\ regFile'[last'.name].kind = "yaml"
         /\ (regFile[last'.name].kind = "yaml"
               /\ regFile'[last'.name].kind = "absent") =>
               /\ last'.result = "ok"
               /\ ~unit'[last'.name]
               /\ LET steps == RemoveSteps(from_dict(safe_load(regFile[last'.name].data)),
                                           last'.keep)
                  IN \A i \in DOMAIN steps : ~PathExists(dirs', steps[i])]_vars

\* C37 witness: a remove raised at a directory deletion after it had
\* deleted the data directory, and the record is still registered.
C37_Witness ==
    /\ last.op = "remove" /\ last.result = "rmtree"
    /\ regFile[last.name].kind = "yaml"
    /\ "datadir" \notin dirs[last.name]

\* C40: a create that follows a completed remove with keep_data of the same
\* name, whose data directory was retained non-empty, is not refused with
\* AlreadyExists, does not run the data directory initialization, and
\* completes with a saved record for the name.
C40_RecreateOverKeptData ==
    [][(/\ last.op = "remove" /\ last.result = "ok" /\ last.keep
        /\ last'.op = "create" /\ last'.name = last.name
        /\ dataInit[last.name])
         => /\ last'.result # "AlreadyExists"
            /\ ~last'.ran
            /\ last'.result = "ok"
            /\ regFile'[last'.name].kind = "yaml"]_vars

\* C38: an upgrade that stopped the service and then failed (package
\* install, unit rendering or reload, start, socket wait, reading the
\* credential, mysql_upgrade, restart) rolls nothing back: the record file
\* is as it was (mysql_version and last_modified included), the unit file
\* and the directories that were there are still there, and the service is
\* as the failed step left it: stopped when the install or the start
\* failed, running when a step after the start and before the restart
\* failed.
C38_UpgradeFailureNoRollback ==
    [][(/\ last'.op = "upgrade" /\ last'.stopped
        /\ last'.result \in {"install", "binary", "reload", "start", "socket",
                              "FileNotFound", "mysql_upgrade", "restart"})
         => LET n == last'.name IN
            /\ regFile' = regFile
            /\ clock' = clock
            /\ unit[n] => unit'[n]
            /\ dirs[n] \subseteq dirs'[n]
            /\ last'.result \in {"install", "binary", "reload", "start"}
                  => ~svc'[n]
            /\ last'.result = "install" => unit' = unit
            /\ last'.result \in {"socket", "FileNotFound", "mysql_upgrade"}
                  => svc'[n]]_vars

\* C38 witness: an upgrade of a started instance failed at the package
\* install: the service is stopped and the record has the version it had.
C38_Witness ==
    /\ last.op = "upgrade" /\ last.result = "install" /\ last.stopped
    /\ unit[last.name] /\ ~svc[last.name]
    /\ HasRecord(last.name)
    /\ load(last.name).rec.mysql_version = "8.0"

\* C39: a remove of one instance, with either value of keep_data, leaves
\* the record, the config directory, the credential file, the unit file
\* and the data, log, runtime and backup directories of every other
\* instance as they were, whatever loadable record the removed instance
\* has.
C39_RemoveLeavesOthers ==
    [][last'.op = "remove" =>
         \A m \in Universe \ {last'.name} :
            /\ regFile'[m] = regFile[m]
            /\ dirs'[m] = dirs[m]
            /\ cnf'[m] = cnf[m]
            /\ pwfile'[m] = pwfile[m]
            /\ unit'[m] = unit[m]
            /\ dataInit'[m] = dataInit[m]
            /\ errlog'[m] = errlog[m]]_vars

====
